---- MODULE Spec2Model ----
(***************************************************************************)
(* Model of the accessibility report aggregation engine                    *)
(* (src/report_generator.py, class ReportGenerator).                       *)
(*                                                                         *)
(* Python dictionaries are modelled as TLA+ functions over string keys     *)
(* (records); dict.get(k, d) is Get(d, k, default).  The manual results    *)
(* mapping is an insertion-ordered dict and is modelled as a sequence of   *)
(* [id, v] entries (criteria id, verdict dict) with distinct ids.          *)
(*                                                                         *)
(* The compliance score is computed by the code in IEEE-754 binary64       *)
(* arithmetic (Python float) and rounded with Python's round().  The       *)
(* model reproduces that arithmetic exactly: a float is a pair             *)
(* [m, e] standing for m * 2^e, the significand m being an arbitrary       *)
(* precision natural held as a little-endian sequence of 12-bit limbs.    *)
(***************************************************************************)
EXTENDS Integers, Sequences, FiniteSets, TLC

(***************************************************************************)
(* Arbitrary precision naturals (little-endian limbs).                     *)
(***************************************************************************)
LimbBits == 3 * 4
LimbBase == 64 * 64

RECURSIVE Pow2(_)
Pow2(k) == IF k = 0 THEN 1 ELSE 2 * Pow2(k - 1)

Limb(a, i) == IF i <= Len(a) THEN a[i] ELSE 0

RECURSIVE BigTrim(_)
BigTrim(a) ==
    IF a = << >> THEN << >>
    ELSE IF a[Len(a)] = 0 THEN BigTrim(SubSeq(a, 1, Len(a) - 1))
    ELSE a

RECURSIVE BigFromInt(_)
BigFromInt(n) ==
    IF n = 0 THEN << >>
    ELSE <<n % LimbBase>> \o BigFromInt(n \div LimbBase)

RECURSIVE BigToInt(_)
BigToInt(a) ==
    IF a = << >> THEN 0
    ELSE a[1] + LimbBase * BigToInt(Tail(a))

RECURSIVE BitLenInt(_)
BitLenInt(n) == IF n = 0 THEN 0 ELSE 1 + BitLenInt(n \div 2)

BigBitLen(a) ==
    LET t == BigTrim(a)
    IN  IF t = << >> THEN 0
        ELSE (Len(t) - 1) * LimbBits + BitLenInt(t[Len(t)])

RECURSIVE BigAddFrom(_, _, _, _)
BigAddFrom(a, b, i, c) ==
    IF i > Len(a) /\ i > Len(b)
    THEN (IF c = 0 THEN << >> ELSE <<c>>)
    ELSE LET s == Limb(a, i) + Limb(b, i) + c
         IN  <<s % LimbBase>> \o BigAddFrom(a, b, i + 1, s \div LimbBase)

BigAdd(a, b) == BigAddFrom(a, b, 1, 0)

RECURSIVE BigMulSmallFrom(_, _, _, _)
BigMulSmallFrom(a, k, i, c) ==
    IF i > Len(a)
    THEN BigFromInt(c)
    ELSE LET s == a[i] * k + c
         IN  <<s % LimbBase>> \o BigMulSmallFrom(a, k, i + 1, s \div LimbBase)

\* a * k for a small natural k (k < 2^18 keeps every partial product in range)
BigMulSmall(a, k) == BigMulSmallFrom(a, k, 1, 0)

BigShlLimbs(a, n) == [i \in 1..n |-> 0] \o a

RECURSIVE BigMulFrom(_, _, _)
BigMulFrom(a, b, i) ==
    IF i > Len(b) THEN << >>
    ELSE BigAdd(BigShlLimbs(BigMulSmall(a, b[i]), i - 1), BigMulFrom(a, b, i + 1))

BigMul(a, b) == BigTrim(BigMulFrom(a, b, 1))

\* a * 2^bits
BigShl(a, bits) ==
    BigTrim(BigShlLimbs(BigMulSmall(a, Pow2(bits % LimbBits)), bits \div LimbBits))

\* floor(a / 2^bits)
BigHigh(a, bits) ==
    LET drop == bits \div LimbBits
        r    == bits % LimbBits
        p    == Pow2(r)
        q    == Pow2(LimbBits - r)
        n    == Len(a) - drop
    IN  IF n <= 0 THEN << >>
        ELSE BigTrim([i \in 1..n |->
                 (a[drop + i] \div p) + (Limb(a, drop + i + 1) % p) * q])

\* a mod 2^bits
BigLow(a, bits) ==
    LET drop == bits \div LimbBits
        r    == bits % LimbBits
    IN  IF Len(a) <= drop THEN BigTrim(a)
        ELSE BigTrim(SubSeq(a, 1, drop) \o <<a[drop + 1] % Pow2(r)>>)

RECURSIVE BigCmpFrom(_, _, _)
BigCmpFrom(a, b, i) ==
    IF i = 0 THEN 0
    ELSE IF Limb(a, i) < Limb(b, i) THEN -1
    ELSE IF Limb(a, i) > Limb(b, i) THEN 1
    ELSE BigCmpFrom(a, b, i - 1)

\* -1, 0 or 1 as a < b, a = b, a > b
BigCmp(a, b) ==
    BigCmpFrom(a, b, IF Len(a) > Len(b) THEN Len(a) ELSE Len(b))

(***************************************************************************)
(* round-half-to-even of (a + d) / 2^bits, 0 <= d < 1, d # 0 iff sticky:   *)
(* the rounding every binary64 operation and Python's round() apply.       *)
(***************************************************************************)
BigShrRound(a, bits, sticky) ==
    IF bits = 0 THEN BigTrim(a)
    ELSE LET hi   == BigHigh(a, bits)
             lo   == BigLow(a, bits)
             half == BigShl(<<1>>, bits - 1)
             c    == BigCmp(lo, half)
             up   == \/ c = 1
                     \/ c = 0 /\ sticky
                     \/ c = 0 /\ ~sticky /\ Limb(hi, 1) % 2 = 1
         IN  IF up THEN BigTrim(BigAdd(hi, <<1>>)) ELSE hi

(***************************************************************************)
(* binary64 values [m, e] = m * 2^e with m < 2^53 (or m = 2^53).           *)
(***************************************************************************)
MantBits == 53

\* the binary64 nearest to (n + d) * 2^e
FRound(n, e, sticky) ==
    LET len == BigBitLen(n)
    IN  IF len <= MantBits THEN [m |-> BigTrim(n), e |-> e]
        ELSE [m |-> BigShrRound(n, len - MantBits, sticky),
              e |-> e + (len - MantBits)]

FFromInt(n) == [m |-> BigFromInt(n), e |-> 0]

RECURSIVE FracLimbs(_, _, _)
\* the first k base-LimbBase digits of r / t (r < t), most significant last
FracLimbs(r, t, k) ==
    IF k = 0 THEN << >>
    ELSE FracLimbs((r * LimbBase) % t, t, k - 1) \o <<(r * LimbBase) \div t>>

RECURSIVE FracRem(_, _, _)
FracRem(r, t, k) ==
    IF k = 0 THEN r ELSE FracRem((r * LimbBase) % t, t, k - 1)

DivLimbs == 3 + 3

\* Python int / int (true division): the binary64 nearest to p / t
FDiv(p, t) ==
    LET n == FracLimbs(p % t, t, DivLimbs) \o BigFromInt(p \div t)
    IN  FRound(BigTrim(n), -(DivLimbs * LimbBits), FracRem(p % t, t, DivLimbs) # 0)

FMul(a, b) == FRound(BigMul(a.m, b.m), a.e + b.e, FALSE)

FAdd(a, b) ==
    LET e == IF a.e < b.e THEN a.e ELSE b.e
    IN  FRound(BigAdd(BigShl(a.m, a.e - e), BigShl(b.m, b.e - e)), e, FALSE)

\* Python round(x) of a float: nearest integer, ties to even
PyRound(x) ==
    IF x.e >= 0 THEN BigToInt(BigShl(x.m, x.e))
    ELSE BigToInt(BigShrRound(x.m, -x.e, FALSE))

\* Python round(x, 1) of a float: the decimal with one digit nearest to the
\* exact value of x, ties to even; the result is held in tenths (66.7 is 667)
PyRoundTenths(x) == PyRound([m |-> BigMulSmall(x.m, 10), e |-> x.e])


(***************************************************************************)
(* Python values.                                                          *)
(***************************************************************************)
Min(a, b) == IF a < b THEN a ELSE b

\* the value None
None == [none |-> TRUE]

IsNone(v) == "none" \in DOMAIN v

\* a str value held where None may be held too
Str(s) == [s |-> s]

\* a number (int or float), held in hundredths: 0.5 is Num(50)
Num(h) == [num |-> h]

\* float('nan')
NaN == [nan |-> TRUE]

\* a list value
List(q) == [list |-> q]

\* the empty dict {}
EmptyDict == << >>

\* dict.get(key, default)
Get(d, key, default) == IF key \in DOMAIN d THEN d[key] ELSE default

\* A manual results mapping is [entries |-> <<[id, v], ...>>] in insertion
\* order; the empty dict given as default by results.get(.., {}) has none.
Entries(m) == Get(m, "entries", << >>)

\* bool(x) of an automated result record (a dict): false for None and {}
TruthyAutomated(a) == ~IsNone(a) /\ DOMAIN a # {}

\* bool(x) of a manual results mapping: false for None and {}
TruthyManual(m) == ~IsNone(m) /\ Len(Entries(m)) > 0

\* The characters of the strings whose content the code looks into (axe
\* tags and criteria ids).
Chars(s) ==
    CASE s = "wcag2a"        -> <<"w", "c", "a", "g", "2", "a">>
      [] s = "wcag2aa"       -> <<"w", "c", "a", "g", "2", "a", "a">>
      [] s = "wcag111"       -> <<"w", "c", "a", "g", "1", "1", "1">>
      [] s = "wcag141"       -> <<"w", "c", "a", "g", "1", "4", "1">>
      [] s = "wcag1411"      -> <<"w", "c", "a", "g", "1", "4", "1", "1">>
      [] s = "wcag143"       -> <<"w", "c", "a", "g", "1", "4", "3">>
      [] s = "wcag246"       -> <<"w", "c", "a", "g", "2", "4", "6">>
      [] s = "cat.color"     -> <<"c", "a", "t", ".", "c", "o", "l", "o", "r">>
      [] s = "best-practice" ->
             <<"b", "e", "s", "t", "-", "p", "r", "a", "c", "t", "i", "c", "e">>
      [] s = "wcag"          -> <<"w", "c", "a", "g">>
      [] s = ""              -> << >>
      [] s = "unknown"       -> <<"u", "n", "k", "n", "o", "w", "n">>
      [] s = "1.1.1"         -> <<"1", ".", "1", ".", "1">>
      [] s = "1.2.1"         -> <<"1", ".", "2", ".", "1">>
      [] s = "1.2.2"         -> <<"1", ".", "2", ".", "2">>
      [] s = "1.3.1"         -> <<"1", ".", "3", ".", "1">>
      [] s = "1.3.2"         -> <<"1", ".", "3", ".", "2">>
      [] s = "1.3.3"         -> <<"1", ".", "3", ".", "3">>
      [] s = "1.4.1"         -> <<"1", ".", "4", ".", "1">>
      [] s = "1.4.3"         -> <<"1", ".", "4", ".", "3">>
      [] s = "2.4.6"         -> <<"2", ".", "4", ".", "6">>
      [] s = "color-contrast" ->
             <<"c", "o", "l", "o", "r", "-", "c",
               "o", "n", "t", "r", "a", "s", "t">>
      [] s = "image-alt" ->
             <<"i", "m", "a", "g", "e", "-", "a", "l", "t">>
      [] s = "heading" ->
             <<"h", "e", "a", "d", "i", "n", "g">>
      [] s = "label" ->
             <<"l", "a", "b", "e", "l">>
      [] s = "heading-order" ->
             <<"h", "e", "a", "d", "i", "n",
               "g", "-", "o", "r", "d", "e", "r">>
      [] s = "region" ->
             <<"r", "e", "g", "i", "o", "n">>
      [] s = "heading-label" ->
             <<"h", "e", "a", "d", "i", "n",
               "g", "-", "l", "a", "b", "e", "l">>
      [] s = "label-color-contrast" ->
             <<"l", "a", "b", "e", "l", "-", "c", "o", "l", "o",
               "r", "-", "c", "o", "n", "t", "r", "a", "s", "t">>
      [] s = "http://" ->
             <<"h", "t", "t", "p", ":", "/", "/">>
      [] s = "https://" ->
             <<"h", "t", "t", "p", "s", ":", "/", "/">>
      [] s = "https://example.com" ->
             <<"h", "t", "t", "p", "s", ":", "/", "/", "e", "x", "a", "m",
               "p", "l", "e", ".", "c", "o", "m">>
      [] s = "http://example.com" ->
             <<"h", "t", "t", "p", ":", "/", "/", "e", "x", "a", "m", "p",
               "l", "e", ".", "c", "o", "m">>
      [] s = "ftp://example.com" ->
             <<"f", "t", "p", ":", "/", "/", "e", "x", "a", "m", "p", "l",
               "e", ".", "c", "o", "m">>
      [] s = "example.com" ->
             <<"e", "x", "a", "m", "p", "l", "e", ".", "c", "o", "m">>
      [] s = "HTTPS://example.com" ->
             <<"H", "T", "T", "P", "S", ":", "/", "/", "e", "x", "a", "m",
               "p", "l", "e", ".", "c", "o", "m">>
      [] s = "input-image-alt" ->
             <<"i", "n", "p", "u", "t", "-", "i",
               "m", "a", "g", "e", "-", "a", "l", "t">>

IsNotPeriod(c) == c # "."

\* s.replace('.', ''), as characters
RemovePeriods(chars) == SelectSeq(chars, IsNotPeriod)

ContainsAsSuffix(hay, needle) ==
    /\ Len(needle) <= Len(hay)
    /\ \A k \in 1..Len(needle) : hay[Len(hay) - Len(needle) + k] = needle[k]

\* needle in hay (str containment), on characters
Contains(hay, needle) ==
    \E o \in 0..(Len(hay) - Len(needle)) :
        \A k \in 1..Len(needle) : hay[o + k] = needle[k]

\* hay.startswith(prefix), on characters
StartsWith(hay, prefix) ==
    /\ Len(prefix) <= Len(hay)
    /\ \A k \in 1..Len(prefix) : hay[k] = prefix[k]

(***************************************************************************)
(* The criteria catalog: the first eight entries of WCAG_CRITERIA and its   *)
(* first level AA entry that needs manual assessment, in file order.       *)
(***************************************************************************)
WCAG_CRITERIA ==
    << [id |-> "1.1.1", title |-> "Non-text Content", level |-> "A",
        requires_manual_assessment |-> TRUE],
       [id |-> "1.2.1", title |-> "Audio-only and Video-only (Prerecorded)",
        level |-> "A", requires_manual_assessment |-> TRUE],
       [id |-> "1.2.2", title |-> "Captions (Prerecorded)", level |-> "A",
        requires_manual_assessment |-> TRUE],
       [id |-> "1.3.1", title |-> "Info and Relationships", level |-> "A",
        requires_manual_assessment |-> TRUE],
       [id |-> "1.3.2", title |-> "Meaningful Sequence", level |-> "A",
        requires_manual_assessment |-> TRUE],
       [id |-> "1.3.3", title |-> "Sensory Characteristics", level |-> "A",
        requires_manual_assessment |-> TRUE],
       [id |-> "1.4.1", title |-> "Use of Color", level |-> "A",
        requires_manual_assessment |-> TRUE],
       [id |-> "1.4.3", title |-> "Contrast (Minimum)", level |-> "AA",
        requires_manual_assessment |-> FALSE],
       [id |-> "2.4.6", title |-> "Headings and Labels", level |-> "AA",
        requires_manual_assessment |-> TRUE] >>

RequiresManual(c) == c.requires_manual_assessment

get_manual_criteria == SelectSeq(WCAG_CRITERIA, RequiresManual)

(***************************************************************************)
(* AIEvaluator (src/ai_evaluator.py).                                      *)
(*                                                                         *)
(* What the provider does for one criterion is an outcome: the call raises *)
(* ([raise |-> ..]), or it returns a text.  A text is held as what         *)
(* json.loads makes of it: [invalid |-> TRUE] for a text that is not JSON, *)
(* [json |-> v] for one that parses to the value v (a dict is a record, a  *)
(* string Str(s), a number Num(h), null None, a list List(q)).             *)
(* A method's result is [return |-> value] or [raise |-> exception name].  *)
(***************************************************************************)
Return(v) == [return |-> v]

Raise(e) == [raise |-> e]

Raises(outcome) == "raise" \in DOMAIN outcome

IsStr(v) == DOMAIN v = {"s"}

IsNum(v) == DOMAIN v = {"num"}

IsNaN(v) == DOMAIN v = {"nan"}

IsList(v) == DOMAIN v = {"list"}

\* a JSON object: none of the other kinds (its keys are verdict fields)
IsDict(v) == ~IsNone(v) /\ ~IsStr(v) /\ ~IsNum(v) /\ ~IsNaN(v) /\ ~IsList(v)

\* str.lower() on the strings the model's providers send
Lower(s) ==
    CASE s = "PASS"     -> "pass"
      [] s = "FAIL"     -> "fail"
      [] s = "Fail"     -> "fail"
      [] s = "Warning"  -> "warning"
      [] s = "High"     -> "high"
      [] s = "CRITICAL" -> "critical"
      [] s = "Low"      -> "low"
      [] OTHER          -> s

required_fields ==
    <<"status", "confidence", "assessment", "issues", "recommendations", "priority">>

\* lines 246-256
get_default_value(field) ==
    CASE field = "status"          -> Str("warning")
      [] field = "confidence"      -> Num(50)
      [] field = "assessment"      -> Str("Assessment not available")
      [] field = "issues"          -> List(<< >>)
      [] field = "recommendations" -> List(<< >>)
      [] field = "priority"        -> Str("medium")
      [] OTHER                     -> None

\* lines 202-205: every required field the response lacks gets its default
FillDefaults(evaluation) ==
    [field \in DOMAIN evaluation \cup {required_fields[i] : i \in 1..Len(required_fields)} |->
        IF field \in DOMAIN evaluation THEN evaluation[field]
        ELSE get_default_value(field)]

\* line 213: only a str has .lower()
StatusHasLower(status) == IsStr(status)

\* lines 213-215
CleanStatus(status) ==
    IF Lower(status.s) \in {"pass", "fail", "warning"} THEN Lower(status.s)
    ELSE "warning"

\* lines 217-219
CleanPriority(priority) ==
    IF Lower(priority.s) \in {"low", "medium", "high", "critical"}
    THEN Lower(priority.s)
    ELSE "medium"

\* float(x): a number as it is, a str by its numeric text, else an error
FloatOf(x) ==
    IF IsNum(x) \/ IsNaN(x) THEN Return(x)
    ELSE IF IsStr(x)
    THEN CASE x.s = "0.8" -> Return(Num(80))
           [] x.s = "2"   -> Return(Num(200))
           [] OTHER       -> Raise("ValueError")
    ELSE Raise("TypeError")

\* min(a, b) of two floats: b if b < a, else a (a NaN compares false)
FloatMin(a, b) == IF IsNum(b) /\ IsNum(a) /\ b.num < a.num THEN b ELSE a

\* max(a, b) of two floats: b if b > a, else a
FloatMax(a, b) == IF IsNum(b) /\ IsNum(a) /\ b.num > a.num THEN b ELSE a

ClampUpperOnly(c) == FloatMin(Num(100), c)

\* line 221: max(0.0, min(1.0, c))
Clamp(c) == FloatMax(Num(0), FloatMin(Num(100), c))

\* str(x) of a value
PyStr(x) == IF IsStr(x) THEN x.s ELSE IF IsNone(x) THEN "None" ELSE ToString(x)

\* lines 224-228: a list as it is, anything else as [str(x)]
EnsureList(x) == IF IsList(x) THEN x.list ELSE <<PyStr(x)>>

\* lines 231-243: the verdict for a text that is not JSON
FallbackVerdict(criteria_data) ==
    [status          |-> "error",
     confidence      |-> Num(0),
     assessment      |-> Str("Failed to parse AI response"),
     issues          |-> <<"AI response parsing failed">>,
     recommendations |-> <<"Manual review required">>,
     priority        |-> "medium",
     level           |-> criteria_data.level,
     title           |-> criteria_data.title,
     criteria_id     |-> Get(criteria_data, "id", "unknown")]

\* lines 195-244.  json.loads raises TypeError for a response that is None;
\* a parsed value that is no dict fails at the item assignment (TypeError);
\* .lower() of a value that is no str raises AttributeError; float() raises
\* ValueError or TypeError.  Only json.JSONDecodeError is caught.
\* lines 208-210 as if they were setdefault calls: what the provider sent
\* as level, title or criteria_id stays
SetCatalogFieldsIfMissing(evaluation, criteria_data) ==
    evaluation @@ [level       |-> criteria_data.level,
                   title       |-> criteria_data.title,
                   criteria_id |-> Get(criteria_data, "id", "unknown")]

\* lines 208-210: evaluation['level'] = criteria_data['level'] and so on,
\* assignments to the dict the provider's JSON was loaded into
SetCatalogFields(evaluation, criteria_data) ==
    [level       |-> criteria_data.level,
     title       |-> criteria_data.title,
     criteria_id |-> Get(criteria_data, "id", "unknown")] @@ evaluation

parse_ai_response(response, criteria_data) ==
    IF IsNone(response) THEN Raise("TypeError")
    ELSE IF "invalid" \in DOMAIN response THEN Return(FallbackVerdict(criteria_data))
    ELSE IF ~IsDict(response.json) THEN Raise("TypeError")
    ELSE LET evaluation == FillDefaults(response.json)
         IN  IF ~StatusHasLower(evaluation.status) THEN Raise("AttributeError")
             ELSE IF ~IsStr(evaluation.priority) THEN Raise("AttributeError")
             ELSE IF Raises(FloatOf(evaluation.confidence))
             THEN FloatOf(evaluation.confidence)
             ELSE Return(SetCatalogFields(
                 [status          |-> CleanStatus(evaluation.status),
                  confidence      |-> Clamp(FloatOf(evaluation.confidence).return),
                  issues          |-> EnsureList(evaluation.issues),
                  recommendations |-> EnsureList(evaluation.recommendations),
                  priority        |-> CleanPriority(evaluation.priority)]
                 @@ evaluation, criteria_data))

\* lines 61-83: the provider call (lines 158-193 re-raise what it raises as
\* Exception), then the parse of its text
evaluate_single_criteria(criteria_data, outcome) ==
    IF Raises(outcome) THEN Raise("Exception")
    ELSE parse_ai_response(outcome.text, criteria_data)

ErrorVerdictAsWarning(criteria_data, e) ==
    [status |-> "warning",
     error  |-> Str(e),
     level  |-> criteria_data.level,
     title  |-> criteria_data.title]

\* lines 52-57
ErrorVerdict(criteria_data, e) ==
    [status |-> "error",
     error  |-> Str(e),
     level  |-> criteria_data.level,
     title  |-> criteria_data.title]

\* lines 48-57: try / except Exception around one criterion
TryEvaluate(criteria_data, outcome) ==
    LET evaluation == evaluate_single_criteria(criteria_data, outcome)
    IN  IF Raises(evaluation) THEN ErrorVerdict(criteria_data, evaluation.raise)
        ELSE evaluation.return

\* lines 41-45: the criteria of the requested levels that need manual
\* assessment, as positions in the catalog, in catalog order
criteria_to_evaluate(levels) ==
    SelectSeq([i \in 1..Len(WCAG_CRITERIA) |-> i],
              LAMBDA i : /\ WCAG_CRITERIA[i].level \in levels
                         /\ WCAG_CRITERIA[i].requires_manual_assessment)

\* lines 27-59; outcomes[i] is what the provider does when asked about
\* WCAG_CRITERIA[i]
evaluate_manual_criteria(outcomes, levels) ==
    LET todo == criteria_to_evaluate(levels)
    IN  [entries |-> [k \in 1..Len(todo) |->
            [id |-> WCAG_CRITERIA[todo[k]].id,
             v  |-> TryEvaluate(WCAG_CRITERIA[todo[k]], outcomes[todo[k]])]]]

(***************************************************************************)
(* ReportGenerator._calculate_compliance_score                             *)
(***************************************************************************)
manual_weight == FDiv(7, 10)

automated_weight == FDiv(3, 10)

\* r.get('status') == s, for an entry e = [id, v] of the manual mapping
StatusIs(e, s) == "status" \in DOMAIN e.v /\ e.v.status = s

StatusIsPass(e) == StatusIs(e, "pass")

WeightedAverageUnweighted(manual_score, automated_score) ==
    FAdd(manual_score, automated_score)

\* line 328: (manual_score * manual_weight) + (automated_score * automated_weight)
WeightedAverage(manual_score, automated_score) ==
    FAdd(FMul(manual_score, manual_weight), FMul(automated_score, automated_weight))

\* lines 310-314: 0 without manual results, else (passed / total) * 100
ManualScore(manual_results) ==
    IF TruthyManual(manual_results)
    THEN LET total_manual  == Len(Entries(manual_results))
             passed_manual == Len(SelectSeq(Entries(manual_results), StatusIsPass))
         IN  IF total_manual > 0
             THEN FMul(FDiv(passed_manual, total_manual), FFromInt(100))
             ELSE FFromInt(0)
    ELSE FFromInt(0)

\* lines 317-324: 100 by default, else (passes / (violations + passes)) * 100
\* lines 319-325 as if the rate of violations were taken instead of its
\* inverse
AutomatedScoreViolationRate(automated_results) ==
    IF TruthyAutomated(automated_results)
    THEN LET violations == Len(Get(automated_results, "violations", << >>))
             passes     == Len(Get(automated_results, "passes", << >>))
             total_auto == violations + passes
         IN  IF total_auto > 0
             THEN FMul(FDiv(violations, total_auto), FFromInt(100))
             ELSE FFromInt(100)
    ELSE FFromInt(100)

AutomatedScore(automated_results) ==
    IF TruthyAutomated(automated_results)
    THEN LET violations == Len(Get(automated_results, "violations", << >>))
             passes     == Len(Get(automated_results, "passes", << >>))
             total_auto == violations + passes
         IN  IF total_auto > 0
             THEN FMul(FDiv(passes, total_auto), FFromInt(100))
             ELSE FFromInt(100)
    ELSE FFromInt(100)

\* lines 305-334: the weighted average of the sections that are present
OverallScore(manual_results, automated_results) ==
    LET manual_score    == ManualScore(manual_results)
        automated_score == AutomatedScore(automated_results)
        overall_score ==
            IF TruthyManual(manual_results) /\ TruthyAutomated(automated_results)
            THEN WeightedAverage(manual_score, automated_score)
            ELSE IF TruthyManual(manual_results)
            THEN manual_score
            ELSE automated_score
    IN  PyRound(overall_score)

calculate_compliance_score_NoEmptyCase(results) ==
    OverallScore(Get(results, "manual_results", EmptyDict),
                 Get(results, "automated_results", EmptyDict))

calculate_compliance_score(results) ==
    LET manual_results    == Get(results, "manual_results", EmptyDict)
        automated_results == Get(results, "automated_results", EmptyDict)
    IN  IF ~TruthyManual(manual_results) /\ ~TruthyAutomated(automated_results)
        THEN 0
        ELSE OverallScore(manual_results, automated_results)

(***************************************************************************)
(* ReportGenerator._determine_overall_status                               *)
(***************************************************************************)
StatusOfScoreExclusive(compliance_score) ==
    IF compliance_score > 90 THEN "Excellent"
    ELSE IF compliance_score > 75 THEN "Good"
    ELSE IF compliance_score > 50 THEN "Needs Improvement"
    ELSE "Poor"

StatusOfScore(compliance_score) ==
    IF compliance_score >= 90 THEN "Excellent"
    ELSE IF compliance_score >= 75 THEN "Good"
    ELSE IF compliance_score >= 50 THEN "Needs Improvement"
    ELSE "Poor"

determine_overall_status(results) ==
    StatusOfScore(calculate_compliance_score(results))

(***************************************************************************)
(* ReportGenerator._map_impact_to_priority                                 *)
(***************************************************************************)
map_impact_to_priority_Unmapped(impact) ==
    IF IsNone(impact) THEN "medium" ELSE impact.s

\* impact is a string, or None (the scanner stores item.get('impact'))
map_impact_to_priority(impact) ==
    IF IsNone(impact) THEN "medium"
    ELSE CASE impact.s = "critical" -> "critical"
           [] impact.s = "serious"  -> "high"
           [] impact.s = "moderate" -> "medium"
           [] impact.s = "minor"    -> "low"
           [] OTHER                 -> "medium"

(***************************************************************************)
(* ReportGenerator._generate_recommendations                               *)
(***************************************************************************)
(***************************************************************************)
(* ReportGenerator._generate_fix_suggestions                               *)
(***************************************************************************)
\* lines 397-421: the substrings looked for in the violation id, in the
\* order of the if / elif chain, and the suggestions of each
SuggestionRules ==
    << [needle      |-> "color-contrast",
        suggestions |->
            <<Str("Increase color contrast ratio to meet WCAG standards"),
              Str("Use darker text on light backgrounds or lighter text on dark backgrounds"),
              Str("Test with color contrast analyzers")>>],
       [needle      |-> "image-alt",
        suggestions |->
            <<Str("Add descriptive alt text to images"),
              Str("Use empty alt=\"\" for decorative images"),
              Str("Ensure alt text conveys the same information as the image")>>],
       [needle      |-> "heading",
        suggestions |->
            <<Str("Use proper heading hierarchy (h1, h2, h3, etc.)"),
              Str("Don't skip heading levels"),
              Str("Ensure headings describe the content that follows")>>],
       [needle      |-> "label",
        suggestions |->
            <<Str("Associate labels with form controls"),
              Str("Use aria-label or aria-labelledby when visible labels aren't possible"),
              Str("Ensure all form inputs have accessible names")>>] >>

\* the rules whose substring occurs in the id
MatchingRules(violation_id) ==
    {k \in 1..Len(SuggestionRules) :
        Contains(Chars(violation_id), Chars(SuggestionRules[k].needle))}

RECURSIVE ExtendAll(_, _)
\* the chain as if every branch were an if of its own
ExtendAll(violation_id, k) ==
    IF k > Len(SuggestionRules) THEN << >>
    ELSE (IF k \in MatchingRules(violation_id)
          THEN SuggestionRules[k].suggestions ELSE << >>)
         \o ExtendAll(violation_id, k + 1)

CannedSuggestionsOfEveryMatch(violation_id) == ExtendAll(violation_id, 1)

\* the if / elif chain: the suggestions of the first branch that is taken
CannedSuggestions(violation_id) ==
    LET matching == MatchingRules(violation_id)
    IN  IF matching = {} THEN << >>
        ELSE SuggestionRules[CHOOSE k \in matching : \A j \in matching : k <= j].suggestions

generate_fix_suggestions(violation) ==
    LET suggestions == CannedSuggestions(Get(violation, "id", ""))
    IN  IF suggestions = << >>
        THEN <<Get(violation, "help",
                   Str("Review the element and apply accessibility best practices"))>>
        ELSE suggestions

\* lines 181-190, the fields the model keeps
AutomatedRecommendation(violation) ==
    [type            |-> "automated",
     priority        |-> map_impact_to_priority(Get(violation, "impact", Str("moderate"))),
     title           |-> Get(violation, "description", "Unknown issue"),
     description     |-> Get(violation, "help", Str("No description available")),
     fix_suggestions |-> generate_fix_suggestions(violation)]

\* lines 196-205, the fields the model keeps
ManualRecommendation(e) ==
    [type        |-> "manual",
     priority    |-> Get(e.v, "priority", "medium"),
     title       |-> <<e.id, Get(e.v, "title", "Unknown criteria")>>,
     description |-> Get(e.v, "assessment", Str("No assessment available")),
     wcag_level  |-> Get(e.v, "level", "A"),
     confidence  |-> Get(e.v, "confidence", Num(50))]

NeedsRecommendationFailOnly(e) == StatusIs(e, "fail")

\* line 195: result.get('status') in ['fail', 'warning']
NeedsRecommendation(e) == StatusIs(e, "fail") \/ StatusIs(e, "warning")

priority_orderUnknownLast(priority) ==
    CASE priority = "critical" -> 0
      [] priority = "high"     -> 1
      [] priority = "medium"   -> 2
      [] priority = "low"      -> 3
      [] OTHER                 -> 4

\* line 208-209: priority_order.get(x['priority'], 2)
priority_order(priority) ==
    CASE priority = "critical" -> 0
      [] priority = "high"     -> 1
      [] priority = "medium"   -> 2
      [] priority = "low"      -> 3
      [] OTHER                 -> 2

SortKey(x) == priority_order(x.priority)

RECURSIVE InsertBeforeEqual(_, _)
InsertBeforeEqual(sorted, x) ==
    IF sorted = << >> THEN <<x>>
    ELSE IF SortKey(x) <= SortKey(Head(sorted)) THEN <<x>> \o sorted
    ELSE <<Head(sorted)>> \o InsertBeforeEqual(Tail(sorted), x)

RECURSIVE InsertStable(_, _)
\* x placed after every element whose key is <= its own
InsertStable(sorted, x) ==
    IF sorted = << >> THEN <<x>>
    ELSE IF SortKey(x) < SortKey(Head(sorted)) THEN <<x>> \o sorted
    ELSE <<Head(sorted)>> \o InsertStable(Tail(sorted), x)

RECURSIVE SortFrom(_, _, _)
SortFrom(list, i, acc) ==
    IF i > Len(list) THEN acc
    ELSE SortFrom(list, i + 1, InsertStable(acc, list[i]))

SortByPriorityNoSort(list) == list

\* list.sort(key=...): stable, ascending by key
SortByPriority(list) == SortFrom(list, 1, << >>)

\* the list before the sort: automated entries, then manual entries
UnsortedRecommendations(results) ==
    LET automated_results == Get(results, "automated_results", EmptyDict)
        manual_results    == Get(results, "manual_results", EmptyDict)
        violations        == Get(automated_results, "violations", << >>)
        failing           == SelectSeq(Entries(manual_results), NeedsRecommendation)
    IN  [i \in 1..Len(violations) |-> AutomatedRecommendation(violations[i])]
        \o [i \in 1..Len(failing) |-> ManualRecommendation(failing[i])]

generate_recommendations(results) ==
    SortByPriority(UnsortedRecommendations(results))

(***************************************************************************)
(* ReportGenerator._generate_meta_info, _generate_summary,                 *)
(* _process_automated_results, _process_manual_results                     *)
(***************************************************************************)
\* results.get(key) is not None
IsNotNone(results, key) == key \in DOMAIN results /\ ~IsNone(results[key])

\* the reading of the system clock, datetime.now(): one of MaxClock instants
VARIABLE now

MaxClock == 2

ClockTexts == <<"2024-05-01T10:00:00.000001", "2024-05-01T10:00:00.000002",
                "2024-05-01T10:00:00.000003">>

\* datetime.now().isoformat(): the text of the instant the clock reads
isoformat(t) == ClockTexts[t]

\* line 41: results.get('timestamp', datetime.now().isoformat())
TimestampOf(results) == Get(results, "timestamp", isoformat(now))

generate_meta_info(results) ==
    [url             |-> Get(results, "url", "Unknown"),
     timestamp       |-> TimestampOf(results),
     wcag_version    |-> "2.1",
     levels_tested   |-> Get(results, "wcag_levels", <<"A", "AA">>),
     testing_methods |-> [automated |-> IsNotNone(results, "automated_results"),
                          manual_ai |-> IsNotNone(results, "manual_results")],
     report_version  |-> "1.0"]

PriorityIs(e, p) == "priority" \in DOMAIN e.v /\ e.v.priority = p

ImpactIs(violation, s) ==
    /\ "impact" \in DOMAIN violation
    /\ ~IsNone(violation.impact)
    /\ violation.impact.s = s

\* lines 57-58 call .get and .values on the two sections: AttributeError
\* when a section is None (results.get(key, {}) returns a stored None)
generate_summary_raises(results) ==
    \/ IsNone(Get(results, "automated_results", EmptyDict))
    \/ IsNone(Get(results, "manual_results", EmptyDict))

IsImageIssueAnyStatus(e) ==
    Contains(Chars(Get(e.v, "criteria_id", "")), Chars("1.1.1"))

\* lines 374-375: '1.1.1' in r.get('criteria_id', '') and status 'fail'
IsImageIssue(e) ==
    /\ Contains(Chars(Get(e.v, "criteria_id", "")), Chars("1.1.1"))
    /\ StatusIs(e, "fail")

\* lines 349-378; f"{n} ..." is the decimal text of n followed by the words
extract_key_findings(results) ==
    LET automated_results == Get(results, "automated_results", EmptyDict)
        manual_results    == Get(results, "manual_results", EmptyDict)
        violations        == Get(automated_results, "violations", << >>)
        IsCriticalImpact(v) == ImpactIs(v, "critical")
        IsHigh(e)         == PriorityIs(e, "high")
        critical_violations  == SelectSeq(violations, IsCriticalImpact)
        high_priority_manual == SelectSeq(Entries(manual_results), IsHigh)
        image_issues         == Len(SelectSeq(Entries(manual_results), IsImageIssue))
        findings ==
            (IF Len(critical_violations) > 0
             THEN <<ToString(Len(critical_violations))
                    \o " critical accessibility violations found">>
             ELSE << >>)
            \o (IF Len(high_priority_manual) > 0
                THEN <<ToString(Len(high_priority_manual))
                       \o " high-priority WCAG compliance issues">>
                ELSE << >>)
            \o (IF Len(critical_violations) = 0 /\ Len(high_priority_manual) = 0
                THEN <<"No critical accessibility issues detected">>
                ELSE << >>)
            \o (IF image_issues > 0
                THEN <<"Image accessibility needs attention">>
                ELSE << >>)
    IN  SubSeq(findings, 1, Min(5, Len(findings)))

generate_summary(results) ==
    LET automated_results == Get(results, "automated_results", EmptyDict)
        manual_results    == Get(results, "manual_results", EmptyDict)
        violations        == Get(automated_results, "violations", << >>)
        IsFail(e)         == StatusIs(e, "fail")
        IsWarning(e)      == StatusIs(e, "warning")
        IsCritical(e)     == PriorityIs(e, "critical")
        IsHigh(e)         == PriorityIs(e, "high")
        IsCriticalImpact(v) == ImpactIs(v, "critical")
        automated_violations == Len(violations)
        manual_failures   == Len(SelectSeq(Entries(manual_results), IsFail))
        manual_warnings   == Len(SelectSeq(Entries(manual_results), IsWarning))
    IN  [total_issues         |-> automated_violations + manual_failures,
         automated_violations |-> automated_violations,
         manual_failures      |-> manual_failures,
         manual_warnings      |-> manual_warnings,
         critical_issues      |-> Len(SelectSeq(Entries(manual_results), IsCritical)),
         high_priority_issues |-> Len(SelectSeq(Entries(manual_results), IsHigh))
                                  + Len(SelectSeq(violations, IsCriticalImpact)),
         overall_status       |-> determine_overall_status(results),
         key_findings         |-> extract_key_findings(results)]

\* the number of positions of a list whose value under f is x
CountOf(f, x) == Cardinality({i \in DOMAIN f : f[i] = x})

ImpactTiers == {Str("critical"), Str("serious"), Str("moderate"), Str("minor")}

\* line 92: violation.get('impact', 'moderate'); a stored None is returned
ImpactOf(violation) == Get(violation, "impact", Str("moderate"))

\* lines 88-93: the four tiers start at 0; impact_summary[impact] is
\* created for any other key (None included)
ImpactSummary(violations) ==
    LET impacts == [i \in 1..Len(violations) |-> ImpactOf(violations[i])]
    IN  [k \in ImpactTiers \cup {impacts[i] : i \in 1..Len(violations)} |->
            CountOf(impacts, k)]

\* lines 95-98: occurrences of each tag that starts with 'wcag'
WcagViolations(violations) ==
    LET TagsOf(i) == Get(violations[i], "tags", << >>)
        Occurrences == UNION { {<<i, j>> : j \in 1..Len(TagsOf(i))} :
                                 i \in 1..Len(violations) }
        IsWcag(tag) == StartsWith(Chars(tag), Chars("wcag"))
        wcag        == {o \in Occurrences : IsWcag(TagsOf(o[1])[o[2]])}
    IN  [tag \in {TagsOf(o[1])[o[2]] : o \in wcag} |->
            Cardinality({o \in wcag : TagsOf(o[1])[o[2]] = tag})]

process_automated_results(automated_results) ==
    IF ~TruthyAutomated(automated_results) THEN [available |-> FALSE]
    ELSE LET violations == Get(automated_results, "violations", << >>)
         IN  [available        |-> TRUE,
              total_violations |-> Len(violations),
              impact_summary   |-> ImpactSummary(violations),
              wcag_violations  |-> WcagViolations(violations),
              violations       |-> violations,
              passes           |-> Len(Get(automated_results, "passes", << >>)),
              incomplete       |-> Len(Get(automated_results, "incomplete", << >>))]

Levels == {"A", "AA", "AAA"}

\* line 123: result.get('status', 'error')
StatusOf(e) == Get(e.v, "status", "error")

\* line 124, line 153: result.get('level', 'A')
LevelOf(e) == Get(e.v, "level", "A")

\* lines 116, 127: the four statuses start at 0, any other gets its own key
StatusSummary(entries) ==
    LET statuses == [i \in 1..Len(entries) |-> StatusOf(entries[i])]
    IN  [st \in {"pass", "fail", "warning", "error"}
                \cup {statuses[i] : i \in 1..Len(entries)} |->
            CountOf(statuses, st)]

\* lines 117-119, 128-129: pass, fail and warning start at 0 in each level,
\* any other status found at a level gets its own key there
LevelSummary(entries) ==
    [level \in Levels |->
        LET at       == SelectSeq(entries, LAMBDA e : LevelOf(e) = level)
            statuses == [i \in 1..Len(at) |-> StatusOf(at[i])]
        IN  [st \in {"pass", "fail", "warning"}
                    \cup {statuses[i] : i \in 1..Len(at)} |->
                CountOf(statuses, st)]]

\* lines 120, 125, 130
PrioritySummary(entries) ==
    LET priorities == [i \in 1..Len(entries) |-> Get(entries[i].v, "priority", "medium")]
    IN  [pr \in {"critical", "high", "medium", "low"}
                \cup {priorities[i] : i \in 1..Len(entries)} |->
            CountOf(priorities, pr)]

process_manual_results(manual_results) ==
    IF ~TruthyManual(manual_results) THEN [available |-> FALSE]
    ELSE [available        |-> TRUE,
          total_criteria   |-> Len(Entries(manual_results)),
          status_summary   |-> StatusSummary(Entries(manual_results)),
          level_summary    |-> LevelSummary(Entries(manual_results)),
          priority_summary |-> PrioritySummary(Entries(manual_results)),
          detailed_results |-> manual_results]

(***************************************************************************)
(* ReportGenerator._generate_wcag_compliance_summary                       *)
(***************************************************************************)
ComplianceRateOfTotal(pass, total) ==
    IF total > 0
    THEN PyRoundTenths(FMul(FDiv(total, total), FFromInt(100)))
    ELSE 0

\* lines 165-170: round((pass / total) * 100, 1), in tenths; 0 without verdicts
ComplianceRate(pass, total) ==
    IF total > 0
    THEN PyRoundTenths(FMul(FDiv(pass, total), FFromInt(100)))
    ELSE 0

\* lines 141-172; the status of a verdict without one counts as 'fail'
generate_wcag_compliance_summary(results) ==
    LET manual_results == Get(results, "manual_results", EmptyDict)
        entries        == Entries(manual_results)
    IN  [level \in Levels |->
            LET at     == SelectSeq(entries, LAMBDA e : LevelOf(e) = level)
                passed == SelectSeq(at, LAMBDA e : Get(e.v, "status", "fail") = "pass")
            IN  [total           |-> Len(at),
                 pass            |-> Len(passed),
                 fail            |-> Len(at) - Len(passed),
                 compliance_rate |-> ComplianceRate(Len(passed), Len(at))]]

(***************************************************************************)
(* ReportGenerator._generate_detailed_findings (cross_references)          *)
(***************************************************************************)
\* lines 286-290: the criteria ids, in mapping order, that with their
\* periods removed are contained in one of the violation's tags
RelatedManual(violation, entries) ==
    LET tags == Get(violation, "tags", << >>)
        IsRelated(e) ==
            \E t \in 1..Len(tags) :
                Contains(Chars(tags[t]), RemovePeriods(Chars(e.id)))
        related == SelectSeq(entries, IsRelated)
    IN  [k \in 1..Len(related) |-> related[k].id]

\* lines 272-295: a dict from violation id to the related criteria ids; a
\* later violation of the same id overwrites the entry of an earlier one
generate_cross_references(results) ==
    LET automated_results == Get(results, "automated_results", EmptyDict)
        manual_results    == Get(results, "manual_results", EmptyDict)
        violations        == Get(automated_results, "violations", << >>)
        IdOf(i)           == Get(violations[i], "id", "unknown")
        HasRelated(i)     == RelatedManual(violations[i], Entries(manual_results)) # << >>
        kept              == {i \in 1..Len(violations) : HasRelated(i)}
        LastOf(id)        == CHOOSE i \in kept :
                                 /\ IdOf(i) = id
                                 /\ \A j \in kept : IdOf(j) = id => j <= i
    IN  [id \in {IdOf(i) : i \in kept} |->
            RelatedManual(violations[LastOf(id)], Entries(manual_results))]

\* lines 213-219, the part the model keeps
generate_detailed_findings(results) ==
    [cross_references |-> generate_cross_references(results)]

(***************************************************************************)
(* ReportGenerator.generate_report                                         *)
(***************************************************************************)
\* The dict literal of lines 24-33 is evaluated in order; the first helper
\* to raise is _generate_summary, and every later helper that touches a
\* None section is never reached.  Of detailed_findings the model keeps
\* the cross references.
generate_report_raises(analysis_results) ==
    generate_summary_raises(analysis_results)

generate_report(analysis_results) ==
    [meta              |-> generate_meta_info(analysis_results),
     summary           |-> generate_summary(analysis_results),
     automated_results |->
         process_automated_results(Get(analysis_results, "automated_results", None)),
     manual_assessment |->
         process_manual_results(Get(analysis_results, "manual_results", None)),
     wcag_compliance   |-> generate_wcag_compliance_summary(analysis_results),
     recommendations   |-> generate_recommendations(analysis_results),
     detailed_findings |-> generate_detailed_findings(analysis_results),
     compliance_score  |-> calculate_compliance_score(analysis_results)]

(***************************************************************************)
(* ReportGenerator.export_report and the renderers it calls.  Of the text  *)
(* a renderer returns the model keeps what the text is made from.  The     *)
(* descriptions of the model are shorter than the 200 characters line 579  *)
(* cuts at.                                                                *)
(***************************************************************************)
\* line 439: json.dumps(report, indent=2, ensure_ascii=False)
generate_json_report(report) == Return([document |-> report])

\* lines 448-529: the page is made from meta, the score, the summary, the
\* compliance table and the first ten recommendations (line 550)
generate_html_report(report) ==
    Return([title            |-> report.meta.url,
            meta             |-> report.meta,
            compliance_score |-> report.compliance_score,
            summary          |-> report.summary,
            wcag_compliance  |-> report.wcag_compliance,
            recommendations  |->
                SubSeq(report.recommendations, 1, Min(10, Len(report.recommendations))),
            detailed_findings |-> report.detailed_findings])

\* lines 575-582: one row per recommendation
CsvRow(rec) ==
    <<rec.type, rec.priority, rec.title, rec.description.s,
      Get(rec, "wcag_level", ""),
      IF rec.type = "manual" THEN "Issue" ELSE "Violation">>

\* lines 563-586; len(rec.get('description', '')) of line 579 raises
\* TypeError for a description that is None
generate_csv_report(report) ==
    LET recs == report.recommendations
    IN  IF \E k \in 1..Len(recs) : ~IsStr(recs[k].description)
        THEN Raise("TypeError")
        ELSE Return([header |-> <<"Type", "Priority", "Title", "Description",
                                  "WCAG Level", "Status">>,
                     rows   |-> [k \in 1..Len(recs) |-> CsvRow(recs[k])]])

\* lines 438-446
export_report(report, format_type) ==
    CASE format_type = "json" -> generate_json_report(report)
      [] format_type = "html" -> generate_html_report(report)
      [] format_type = "csv"  -> generate_csv_report(report)
      [] OTHER                -> Raise("Unsupported export format: " \o format_type)

(***************************************************************************)
(* AccessibilityChecker._process_axe_results and the end of                *)
(* run_axe_core_analysis                                                   *)
(***************************************************************************)
Categories == {"violations", "passes", "incomplete", "inapplicable"}

\* lines 140-146
ProcessedNode(node) ==
    [target         |-> Get(node, "target", << >>),
     html           |-> Get(node, "html", ""),
     failureSummary |-> Get(node, "failureSummary", ""),
     impact         |-> Get(node, "impact", None)]

\* lines 130-148
ProcessedItem(item) ==
    LET nodes == Get(item, "nodes", << >>)
    IN  [id          |-> Get(item, "id", None),
         description |-> Get(item, "description", None),
         help        |-> Get(item, "help", None),
         helpUrl     |-> Get(item, "helpUrl", None),
         impact      |-> Get(item, "impact", None),
         tags        |-> Get(item, "tags", << >>),
         nodes       |-> [n \in 1..Len(nodes) |-> ProcessedNode(nodes[n])]]

\* lines 115-152
process_axe_results(results) ==
    IF "error" \in DOMAIN results
    THEN Raise("axe-core error: " \o results.error)
    ELSE Return([category \in Categories |->
                    IF category \in DOMAIN results
                    THEN [i \in 1..Len(results[category]) |->
                             ProcessedItem(results[category][i])]
                    ELSE << >>])

\* lines 108-109: every exception of the try block is raised again
Reraised(outcome) ==
    IF Raises(outcome)
    THEN Raise("Error during axe-core analysis: " \o outcome.raise)
    ELSE outcome

\* lines 110-112 as if the driver were quit at the end of the try block
DriverAfterFinallyOnSuccess(d, outcome) ==
    IF IsNone(d.self_driver) \/ Raises(outcome) THEN d
    ELSE [d EXCEPT !.quits[d.self_driver.session] = @ + 1]

\* lines 110-112: finally: if self.driver: self.driver.quit()
DriverAfterFinally(d, outcome) ==
    IF IsNone(d.self_driver) THEN d
    ELSE [d EXCEPT !.quits[d.self_driver.session] = @ + 1]

(***************************************************************************)
(* State.                                                                  *)
(*   analysis_results  the dict handed to the ReportGenerator              *)
(*   pc                "ready", then "returned" / "raised" (generate_report)*)
(*                     or "scored", "done" (direct calls of the scorer)    *)
(*   report            what generate_report returned or raised             *)
(*   ret               what the directly called methods returned           *)
(*   wcag_levels       the levels handed to the AIEvaluator                *)
(*   outcomes          what the provider does when asked about each        *)
(*                     catalog entry (used by the AIEvaluator only)        *)
(*   now               (declared above) the reading of the system clock    *)
(*   previous          what an earlier call of generate_report or of the   *)
(*                     scorer returned                                     *)
(*   generator         the attributes of the ReportGenerator instance      *)
(*   app               one run of app.py main(): its inputs and the calls   *)
(*                     it has made                                         *)
(*   driver            AccessibilityChecker.driver and what happened to    *)
(*                     the WebDriver sessions of one analysis              *)
(***************************************************************************)
VARIABLES analysis_results, pc, report, ret, wcag_levels, outcomes,
          previous, generator, app, driver

vars == <<analysis_results, pc, report, ret, wcag_levels, outcomes,
          now, previous, generator, app, driver>>

(***************************************************************************)
(* Inputs.  A section is left out of analysis_results (Absent), stored as  *)
(* None (app.py lines 128-129), or stored as a dict.                       *)
(***************************************************************************)
Absent == [absent |-> TRUE]

\* AccessibilityChecker.__init__ (lines 25-26): no driver, no session started
NoDriver == [self_driver |-> None, quits |-> << >>]

\* Outside a run of main() and of the scanner: the clock reads its first
\* instant, generate_report has not been called, ReportGenerator.__init__
\* (lines 11-12) has set no attribute.
Idle ==
    /\ now = 1
    /\ previous = EmptyDict
    /\ generator = EmptyDict
    /\ app = EmptyDict
    /\ driver = NoDriver

IsAbsent(v) == "absent" \in DOMAIN v

MakeResults(automated, manual) ==
    (IF IsAbsent(automated) THEN EmptyDict ELSE [automated_results |-> automated])
    @@ (IF IsAbsent(manual) THEN EmptyDict ELSE [manual_results |-> manual])

\* violations + passes + manual verdicts of one analysis
MaxFindings == 3

RuleIds == <<"color-contrast", "image-alt", "heading-order", "label", "region">>

RuleDescriptions ==
    << "Ensures the contrast between foreground and background colors meets WCAG 2 AA",
       "Ensures <img> elements have alternate text or a role of none or presentation",
       "Ensures the order of headings is semantically correct",
       "Ensures every form element has a label",
       "Ensures all page content is contained by landmarks" >>

\* what the violation carries as impact: a tier, None, or no impact key
ImpactChoices == {"critical", "serious", "moderate", "minor", "None", "absent"}

Finding(i) ==
    [id |-> RuleIds[i], description |-> RuleDescriptions[i]]

Violation(i, c) ==
    IF c = "absent" THEN Finding(i)
    ELSE Finding(i) @@ [impact |-> IF c = "None" THEN None ELSE Str(c)]

AutomatedRecord(violations, passes, incomplete, inapplicable) ==
    [violations   |-> violations,
     passes       |-> passes,
     incomplete   |-> incomplete,
     inapplicable |-> inapplicable]

Findings(n) == [i \in 1..n |-> Finding(((i - 1) % Len(RuleIds)) + 1)]

AutomatedChoices(nv, np) ==
    { AutomatedRecord([i \in 1..nv |-> Violation(i, f[i])], Findings(np), << >>, << >>) :
        f \in [1..nv -> ImpactChoices] }
    \cup (IF nv = 0 /\ np = 0 THEN {Absent, None, EmptyDict} ELSE {})

\* the fields of a verdict the provider decides; an 'error' verdict is the
\* record evaluate_manual_criteria builds (status, level, title only), and a
\* verdict may come without a priority
VerdictChoices ==
    [status : {"fail"}, priority : {"critical", "high", "medium", "low", "urgent"}]
    \cup {[status |-> "warning", priority |-> "high"], [status |-> "warning"],
          [status |-> "pass", priority |-> "low"], [status |-> "error"]}

ManualEntry(i, c) ==
    LET criteria_data == get_manual_criteria[i]
    IN  [id |-> criteria_data.id,
         v  |-> c @@ [level |-> criteria_data.level, title |-> criteria_data.title]]

ManualChoices(nc) ==
    { [entries |-> [i \in 1..nc |-> ManualEntry(i, f[i])]] :
        f \in [1..nc -> VerdictChoices] }
    \cup (IF nc = 0 THEN {Absent, None} ELSE {})

Init ==
    /\ pc = "ready"
    /\ report = EmptyDict
    /\ ret = EmptyDict
    /\ wcag_levels = {}
    /\ outcomes = << >>
    /\ Idle
    /\ \E nv \in 0..Min(MaxFindings, Len(RuleIds)),
          np \in 0..MaxFindings,
          nc \in 0..Min(MaxFindings, Len(get_manual_criteria)) :
            /\ nv + np + nc <= MaxFindings
            /\ \E a \in AutomatedChoices(nv, np), m \in ManualChoices(nc) :
                   analysis_results = MakeResults(a, m)

(***************************************************************************)
(* Inputs of the scorer: many findings, their content fixed.               *)
(***************************************************************************)
MaxScoreCriteria == 40
MaxScorePasses == 23
MaxScoreViolations == 17
MaxScoreOther == 1
MaxBlendCriteria == 10
MaxBlendPasses == 5
MaxBlendViolations == 5

NonPassStatuses == <<"fail", "warning", "error">>

\* t verdicts, the first p of them 'pass', the others fail, warning, error in turn
ScoreManual(t, p) ==
    [entries |-> [i \in 1..t |->
        [id |-> ToString(i),
         v  |-> [status   |-> IF i <= p THEN "pass" ELSE NonPassStatuses[(i % 3) + 1],
                 priority |-> "medium", level |-> "A", title |-> "criterion"]]]]

ScoreAutomated(nv, np, no) ==
    AutomatedRecord(Findings(nv), Findings(np), Findings(no), Findings(no))

AbsentManual == {Absent, None, [entries |-> << >>]}

AbsentAutomated == {Absent, None, EmptyDict}

ScoreInputs ==
    { MakeResults(a, m) : a \in AbsentAutomated, m \in AbsentManual }
    \cup { MakeResults(ScoreAutomated(nv, np, no), m) :
             nv \in 0..MaxScoreViolations, np \in 0..MaxScorePasses,
             no \in 0..MaxScoreOther, m \in AbsentManual }
    \cup { MakeResults(a, ScoreManual(tp[1], tp[2])) :
             tp \in {x \in (1..MaxScoreCriteria) \X (0..MaxScoreCriteria) : x[2] <= x[1]},
             a \in AbsentAutomated }
    \cup { MakeResults(ScoreAutomated(nv, np, 0), ScoreManual(tp[1], tp[2])) :
             tp \in {x \in (1..MaxBlendCriteria) \X (0..MaxBlendCriteria) : x[2] <= x[1]},
             nv \in 0..MaxBlendViolations, np \in 0..MaxBlendPasses }

InitScore ==
    /\ pc = "ready"
    /\ report = EmptyDict
    /\ ret = EmptyDict
    /\ wcag_levels = {}
    /\ outcomes = << >>
    /\ Idle
    /\ analysis_results \in ScoreInputs

(***************************************************************************)
(* Inputs of the AIEvaluator: what the provider does for each catalog      *)
(* entry.  The outcomes for the first MaxResponses entries vary, the other *)
(* entries get a well-formed response.                                     *)
(***************************************************************************)
MaxResponses == 2

Text(v) == [text |-> [json |-> v]]

GoodOutcome ==
    Text([status |-> Str("pass"), confidence |-> Num(90),
          assessment |-> Str("Meets the criterion"), issues |-> List(<< >>),
          recommendations |-> List(<< >>), priority |-> Str("low")])

\* a response that is a JSON object with the six fields
Response(status, priority, confidence, issues) ==
    Text([status |-> status, confidence |-> confidence,
          assessment |-> Str("Assessment of the page"), issues |-> issues,
          recommendations |-> List(<<"Fix the markup">>), priority |-> priority])

\* a response that carries a level and a title of its own (the model never
\* looks into these two, they are plain texts like the catalog's)
LabelledOutcome ==
    Text([status |-> Str("fail"), confidence |-> Num(80),
          assessment |-> Str("Assessment of the page"), issues |-> List(<< >>),
          recommendations |-> List(<< >>), priority |-> Str("medium"),
          level |-> "AAA", title |-> "A title of the provider"])

OutcomeChoices ==
    { Raise("connection failed"),
      [text |-> [invalid |-> TRUE]],
      Text(List(<< >>)),
      Text(EmptyDict),
      GoodOutcome,
      Response(Str("FAIL"), Str("High"), Num(150), Str("Image without alt text")),
      Response(Str("fail"), Str("CRITICAL"), Num(-50), List(<<"No captions">>)),
      Response(Str("maybe"), Str("urgent"), Str("0.8"), List(<< >>)),
      Response(Str("Warning"), Str("high"), NaN, List(<< >>)),
      Response(None, Str("high"), Num(70), List(<< >>)),
      Response(Str("fail"), Num(100), Num(70), List(<< >>)),
      Response(Str("fail"), Str("high"), Str("high"), List(<< >>)),
      Response(Str("fail"), Str("low"), None, List(<< >>)),
      LabelledOutcome }

Outcomes ==
    { [i \in 1..Len(WCAG_CRITERIA) |->
          IF i <= MaxResponses THEN f[i] ELSE GoodOutcome] :
        f \in [1..MaxResponses -> OutcomeChoices] }

LevelChoices == {{"A"}, {"AA"}, {"A", "AA"}, {"AAA"}}

\* the scan behind the evaluation: one critical violation, one pass
EvalAutomated ==
    AutomatedRecord(<<Violation(2, "critical")>>, Findings(1), << >>, << >>)

\* app.py lines 125-141: the results before the manual assessment
InitEval ==
    /\ pc = "start"
    /\ report = EmptyDict
    /\ ret = EmptyDict
    /\ analysis_results = MakeResults(EvalAutomated, None)
    /\ wcag_levels \in LevelChoices
    /\ outcomes \in Outcomes
    /\ Idle

(***************************************************************************)
(* Inputs of the classifier: manual mappings as the evaluator builds them  *)
(* (a parsed verdict with its nine fields, or the four-field verdict of a  *)
(* failed evaluation), at any of the three levels.                         *)
(***************************************************************************)
MaxVerdicts == 3

ParsedVerdict(criteria_data, status, priority) ==
    [status          |-> status,
     confidence      |-> Num(80),
     assessment      |-> Str("Assessment of the page"),
     issues          |-> << >>,
     recommendations |-> << >>,
     priority        |-> priority,
     level           |-> criteria_data.level,
     title           |-> criteria_data.title,
     criteria_id     |-> criteria_data.id]

VerdictKinds == {"pass", "fail", "warning", "error"}

VerdictOfKind(criteria_data, kind) ==
    CASE kind = "pass"    -> ParsedVerdict(criteria_data, "pass", "low")
      [] kind = "fail"    -> ParsedVerdict(criteria_data, "fail", "critical")
      [] kind = "warning" -> ParsedVerdict(criteria_data, "warning", "high")
      [] kind = "error"   -> ErrorVerdict(criteria_data, "Exception")

\* the verdict for the i-th manual criterion, taken to be of the given level
LevelledEntry(i, level, kind) ==
    LET criteria_data == [get_manual_criteria[i] EXCEPT !.level = level]
    IN  [id |-> criteria_data.id, v |-> VerdictOfKind(criteria_data, kind)]

LevelRank(level) == CASE level = "A" -> 1 [] level = "AA" -> 2 [] level = "AAA" -> 3

\* the mappings of nc verdicts, the levels in ascending order (the tables
\* count per level, the place of a verdict in the mapping plays no part)
LevelledMappings(nc) ==
    { [entries |-> [i \in 1..nc |-> LevelledEntry(i, f[i][1], f[i][2])]] :
        f \in { g \in [1..nc -> Levels \X VerdictKinds] :
                  \A i, j \in 1..nc :
                      i < j => LevelRank(g[i][1]) <= LevelRank(g[j][1]) } }

InitManual ==
    /\ pc = "ready"
    /\ report = EmptyDict
    /\ ret = EmptyDict
    /\ wcag_levels = {}
    /\ outcomes = << >>
    /\ Idle
    /\ \E nc \in 0..Min(MaxVerdicts, Len(get_manual_criteria)) :
           \E m \in LevelledMappings(nc), a \in {Absent, EvalAutomated} :
               analysis_results = MakeResults(a, m)

(***************************************************************************)
(* Inputs of the cross references and key findings: violations with tags   *)
(* as the scanner emits them (impact None when axe gives none), or with a  *)
(* field left out, and verdicts for 1.1.1, 1.4.1 and 2.4.6.                *)
(***************************************************************************)
MaxTagged == 2

\* impact ("None": stored as None; "absent": no impact key) and tags
\* ("absent": no tags key) of a violation
ViolationKinds ==
    << [impact |-> "critical", tags |-> <<"cat.color", "wcag2a", "wcag111">>],
       [impact |-> "serious",  tags |-> <<"wcag2aa", "wcag143">>],
       [impact |-> "moderate", tags |-> <<"best-practice">>],
       [impact |-> "minor",    tags |-> <<"wcag2a", "wcag1411", "wcag246">>],
       [impact |-> "None",     tags |-> <<"wcag2a", "wcag111", "wcag141">>],
       [impact |-> "absent",   tags |-> "absent"],
       [impact |-> "trivial",  tags |-> << >>] >>

TaggedViolation(i, k) ==
    Violation(i, ViolationKinds[k].impact)
    @@ (IF ViolationKinds[k].tags = "absent" THEN EmptyDict
        ELSE [tags |-> ViolationKinds[k].tags])

TaggedRecords ==
    UNION { { AutomatedRecord([i \in 1..nv |-> TaggedViolation(i, f[i])],
                              Findings(1), << >>, << >>) :
                f \in [1..nv -> 1..Len(ViolationKinds)] } :
            nv \in 0..Min(MaxTagged, Len(RuleIds)) }

\* the catalog entries the mappings of this specification draw from
FindingCriteria ==
    SelectSeq(WCAG_CRITERIA, LAMBDA c : c.id \in {"1.1.1", "1.4.1", "2.4.6"})

\* what a mapping may hold for the i-th of FindingCriteria: a verdict that
\* is not 'pass' or none for the level A criteria, a warning or none for 2.4.6
FindingKinds(i) ==
    IF FindingCriteria[i].level = "A" THEN {"fail", "warning", "error", "absent"}
    ELSE {"warning", "absent"}

\* one choice of FindingKinds for each of FindingCriteria, in catalog order
FindingMappings ==
    { [entries |->
          LET present == SelectSeq([i \in 1..Len(FindingCriteria) |-> i],
                                   LAMBDA i : f[i] # "absent")
          IN  [k \in 1..Len(present) |->
                  [id |-> FindingCriteria[present[k]].id,
                   v  |-> VerdictOfKind(FindingCriteria[present[k]], f[present[k]])]]] :
        f \in { g \in [1..Len(FindingCriteria) -> VerdictKinds \cup {"absent"}] :
                  \A i \in 1..Len(FindingCriteria) : g[i] \in FindingKinds(i) } }

InitFindings ==
    /\ pc = "ready"
    /\ report = EmptyDict
    /\ ret = EmptyDict
    /\ wcag_levels = {}
    /\ outcomes = << >>
    /\ Idle
    /\ \E a \in TaggedRecords, m \in FindingMappings :
           analysis_results = MakeResults(a, m)

(***************************************************************************)
(* Inputs of repeated calls: the run metadata is supplied or left out.     *)
(***************************************************************************)
\* violations + manual verdicts of an analysis handed over twice
MaxRepeatFindings == 2

RepeatAutomated(nv) ==
    { AutomatedRecord([i \in 1..nv |-> Violation(i, f[i])], Findings(1), << >>, << >>) :
        f \in [1..nv -> {"critical", "minor", "absent"}] }
    \cup (IF nv = 0 THEN {Absent, None} ELSE {})

RepeatManual(nc) ==
    { [entries |-> [i \in 1..nc |-> ManualEntry(i, f[i])]] :
        f \in [1..nc -> {[status |-> "fail", priority |-> "high"],
                         [status |-> "pass", priority |-> "low"]}] }
    \cup (IF nc = 0 THEN {Absent, None} ELSE {})

\* app.py lines 125-132 store url, timestamp and wcag_levels; a caller of
\* generate_report may leave any of them out (lines 40-43 default them)
MetadataChoices ==
    { EmptyDict,
      [timestamp |-> "2024-04-30T09:00:00"],
      [url |-> "https://example.com", wcag_levels |-> <<"A">>],
      [url |-> "https://example.com", timestamp |-> "2024-04-30T09:00:00",
       wcag_levels |-> <<"A">>] }

InitRepeat ==
    /\ pc = "ready"
    /\ report = EmptyDict
    /\ ret = EmptyDict
    /\ wcag_levels = {}
    /\ outcomes = << >>
    /\ Idle
    /\ \E nv \in 0..Min(MaxRepeatFindings, Len(RuleIds)),
          nc \in 0..Min(MaxRepeatFindings, Len(get_manual_criteria)) :
            /\ nv + nc <= MaxRepeatFindings
            /\ \E a \in RepeatAutomated(nv), m \in RepeatManual(nc),
                  meta \in MetadataChoices :
                   analysis_results = MakeResults(a, m) @@ meta

(***************************************************************************)
(* Inputs of the export and of the fix suggestions: rule ids that hold     *)
(* one, several or none of the substrings looked for, and descriptions     *)
(* that are texts or None.                                                 *)
(***************************************************************************)
\* violations of an analysis whose report is exported
MaxExportViolations == 2

\* help as _process_axe_results stores it (line 133, item.get('help')): the
\* text axe gives, None when axe gives none; "absent" for a record that
\* was not made by the scanner
SuggestionKinds ==
    << [id |-> "color-contrast", help |-> "text"],
       [id |-> "image-alt", help |-> "text"],
       [id |-> "heading-order", help |-> "text"],
       [id |-> "label", help |-> "text"],
       [id |-> "region", help |-> "text"],
       [id |-> "region", help |-> "absent"],
       [id |-> "region", help |-> "None"],
       [id |-> "heading-label", help |-> "text"],
       [id |-> "label-color-contrast", help |-> "text"],
       [id |-> "input-image-alt", help |-> "None"] >>

HelpedViolation(k) ==
    LET kind == SuggestionKinds[k]
    IN  [id |-> kind.id, description |-> "Ensures the rule " \o kind.id, impact |-> Str("serious")]
        @@ (CASE kind.help = "text"   -> [help |-> Str("Fix " \o kind.id)]
              [] kind.help = "None"   -> [help |-> None]
              [] kind.help = "absent" -> EmptyDict)

\* an assessment as _parse_ai_response leaves it (lines 201-205 fill
\* missing fields only): the provider's text, or None for a JSON null
ExportManualChoices ==
    { Absent,
      [entries |-> <<ManualEntry(1, [status |-> "fail", priority |-> "high",
                                     assessment |-> Str("No text alternative")])>>],
      [entries |-> <<ManualEntry(1, [status |-> "warning", priority |-> "high",
                                     assessment |-> None])>>],
      [entries |-> <<ManualEntry(1, [status |-> "pass", priority |-> "low",
                                     assessment |-> None])>>] }

FormatChoices == {"json", "html", "csv", "xml", "JSON", ""}

InitExport ==
    /\ pc = "ready"
    /\ report = EmptyDict
    /\ ret = EmptyDict
    /\ wcag_levels = {}
    /\ outcomes = << >>
    /\ Idle
    /\ \E nv \in 0..MaxExportViolations :
           \E f \in [1..nv -> 1..Len(SuggestionKinds)], m \in ExportManualChoices :
               analysis_results =
                   MakeResults(AutomatedRecord([i \in 1..nv |-> HelpedViolation(f[i])],
                                               Findings(1), << >>, << >>), m)
                   @@ [url |-> "https://example.com", timestamp |-> "2024-04-30T09:00:00",
                       wcag_levels |-> <<"A", "AA">>]

(***************************************************************************)
(* Inputs of a run of main(): what the user entered and selected, and the  *)
(* feature switch of line 17.                                              *)
(***************************************************************************)
\* violations and passes of the record a scan returns to main()
MaxScanFindings == 1

UrlChoices ==
    {"", "https://example.com", "http://example.com", "ftp://example.com",
     "example.com", "HTTPS://example.com"}

\* AI_ASSESSMENT_FEATURE_FLAG (line 17, False in the file); with the switch
\* on the sidebar offers the provider and the manual checkbox (lines 52-59,
\* 72-75)
Selections ==
    { [url |-> u, include_automated |-> a, feature_flag |-> f,
       include_manual |-> f /\ m, wcag_levels |-> l, wcag_version_supported |-> v,
       scan |-> "not started", manual |-> "not started"] :
        u \in UrlChoices, a \in BOOLEAN, f \in BOOLEAN, m \in BOOLEAN,
        l \in {<< >>, <<"A">>, <<"A", "AA">>}, v \in BOOLEAN }

\* what checker.run_axe_core_analysis returns to main()
ScanRecords ==
    { AutomatedRecord([i \in 1..nv |-> Violation(i, "serious")], Findings(np), << >>, << >>) :
        nv \in 0..MaxScanFindings, np \in 0..MaxScanFindings }

InitApp ==
    /\ pc = "main"
    /\ analysis_results = EmptyDict
    /\ report = EmptyDict
    /\ ret = EmptyDict
    /\ wcag_levels = {}
    /\ outcomes = << >>
    /\ now = 1
    /\ previous = EmptyDict
    /\ generator = EmptyDict
    /\ driver = NoDriver
    /\ app \in Selections

(***************************************************************************)
(* Inputs of the scorer that are changed one finding at a time.            *)
(***************************************************************************)
\* manual verdicts of an analysis that is scored again after a change
MaxMonotoneCriteria == 5

\* violations, and passes, of an analysis that is scored again
MaxMonotoneFindings == 3

InitMonotone ==
    /\ pc = "ready"
    /\ report = EmptyDict
    /\ ret = EmptyDict
    /\ wcag_levels = {}
    /\ outcomes = << >>
    /\ Idle
    /\ \E a \in {Absent} \cup { ScoreAutomated(nv, np, 0) :
                                  nv \in 0..MaxMonotoneFindings,
                                  np \in 0..MaxMonotoneFindings },
          m \in {Absent} \cup { ScoreManual(t, 0) : t \in 1..MaxMonotoneCriteria } :
           analysis_results = MakeResults(a, m)

(***************************************************************************)
(* Inputs of the scanner: what axe.run hands back through the callback.    *)
(***************************************************************************)
\* calls of run_axe_core_analysis on one AccessibilityChecker
MaxScans == 2

AxeNode == [target |-> <<"img">>, html |-> "<img src=a.png>", impact |-> Str("critical")]

AxeItems ==
    << [id |-> "image-alt", description |-> RuleDescriptions[2],
        help |-> Str("Images must have alternate text"),
        helpUrl |-> "https://dequeuniversity.com/rules/axe/4.8/image-alt",
        impact |-> Str("critical"), tags |-> <<"wcag2a", "wcag111">>,
        nodes |-> <<AxeNode>>],
       [id |-> "region", description |-> RuleDescriptions[5], impact |-> None] >>

\* the value of axe_results (line 97): the object axe.run resolves to, one
\* without some of the partitions, the record of the JavaScript catch, or
\* None
AxeResults ==
    { [violations |-> <<AxeItems[1]>>, passes |-> <<AxeItems[2]>>,
       incomplete |-> << >>, inapplicable |-> << >>, url |-> "https://example.com"],
      [violations |-> <<AxeItems[1], AxeItems[2]>>, passes |-> << >>],
      [passes |-> <<AxeItems[2]>>],
      [error |-> "Error: No elements found for include in page Context"],
      None }

\* wcag_levels as the caller passes it: None (the default), or the selected
\* levels
ScanLevelChoices == {None, List(<< >>), List(<<"A", "AA">>), List(<<"AAA">>)}

InitScan ==
    /\ pc = "setup"
    /\ analysis_results = EmptyDict
    /\ report = EmptyDict
    /\ ret = EmptyDict
    /\ wcag_levels \in ScanLevelChoices
    /\ outcomes = << >>
    /\ Idle

(***************************************************************************)
(* Operations.                                                             *)
(***************************************************************************)
\* results['manual_results'] = ai_evaluator.evaluate_manual_criteria(..)
EvaluateManualCriteria ==
    /\ pc = "start"
    /\ pc' = "ready"
    /\ analysis_results' =
           [analysis_results EXCEPT
               !.manual_results = evaluate_manual_criteria(outcomes, wcag_levels)]
    /\ UNCHANGED <<report, ret, wcag_levels, outcomes, now, previous, generator, app, driver>>

\* self._parse_ai_response(response, criteria_data), called on its own with
\* the text the provider returned for one criterion
ParseAiResponse ==
    /\ pc = "start"
    /\ \E i \in 1..MaxResponses :
           /\ ~Raises(outcomes[i])
           /\ ret' = [criterion |-> i,
                      parsed    |-> parse_ai_response(outcomes[i].text, WCAG_CRITERIA[i])]
    /\ pc' = "parsed"
    /\ UNCHANGED <<analysis_results, report, wcag_levels, outcomes, now, previous, generator, app, driver>>

\* the violations list as if line 209 sorted it instead of the list of
\* recommendations
ResultsAfterCallViolationsSorted(results) ==
    IF "automated_results" \in DOMAIN results
         /\ ~IsNone(results.automated_results)
         /\ "violations" \in DOMAIN results.automated_results
    THEN LET violations == results.automated_results.violations
             sorted == SortByPriority([i \in 1..Len(violations) |->
                           [priority |-> AutomatedRecommendation(violations[i]).priority,
                            index    |-> i]])
         IN  [results EXCEPT !.automated_results.violations =
                 [k \in 1..Len(violations) |-> violations[sorted[k].index]]]
    ELSE results

\* What a call of generate_report leaves in the dict it was handed: the
\* helpers read it with get, build new lists and dicts (lines 86, 119, 144,
\* 176, 279, 392) and assign, append and sort only on those (lines 93-130,
\* 158-168, 209, 293).
ResultsAfterCall(results) == results

\* report = report_generator.generate_report(results)
GenerateReport ==
    /\ pc = "ready"
    /\ IF generate_report_raises(analysis_results)
       THEN /\ pc' = "raised"
            /\ report' = [error |-> "AttributeError"]
       ELSE /\ pc' = "returned"
            /\ report' = generate_report(analysis_results)
    /\ analysis_results' = ResultsAfterCall(analysis_results)
    /\ UNCHANGED <<ret, wcag_levels, outcomes, now, previous, generator, app, driver>>

\* a second report_generator.generate_report(results) on the same results
GenerateReportAgain ==
    /\ pc \in {"returned", "raised"}
    /\ pc' = "repeated"
    /\ previous' = report
    /\ report' = IF generate_report_raises(analysis_results)
                 THEN [error |-> "AttributeError"]
                 ELSE generate_report(analysis_results)
    /\ analysis_results' = ResultsAfterCall(analysis_results)
    /\ UNCHANGED <<ret, wcag_levels, outcomes, now, generator, app, driver>>

\* report_generator.export_report(report, format_type), called with a
\* report that generate_report returned
ExportReport ==
    /\ pc = "returned"
    /\ \E format_type \in FormatChoices :
           ret' = [format_type |-> format_type,
                   result      |-> export_report(report, format_type)]
    /\ pc' = "exported"
    /\ UNCHANGED <<analysis_results, report, wcag_levels, outcomes,
                   now, previous, generator, app, driver>>

\* line 99: the button is disabled
ButtonDisabled ==
    \/ ~(app.include_automated \/ app.include_manual)
    \/ Len(app.wcag_levels) = 0
    \/ ~app.wcag_version_supported

\* line 105 as if every URL were let through
UrlAcceptedAlways(url) == TRUE

\* line 105: url.startswith(('http://', 'https://'))
UrlAccepted(url) ==
    \/ StartsWith(Chars(url), Chars("http://"))
    \/ StartsWith(Chars(url), Chars("https://"))

\* lines 104-132: the button is pressed; the URL is checked, the components
\* are made and results is built.  AIEvaluator is made only with the switch
\* on (lines 117-120), and its constructor may raise (the provider client
\* without a key); every exception from line 112 on is raised again by the
\* handler of lines 169-172.
Analyze ==
    /\ pc = "main"
    /\ IF ButtonDisabled \/ app.url = ""
       THEN pc' = "not run" /\ UNCHANGED analysis_results
       ELSE IF ~UrlAccepted(app.url)
       THEN pc' = "rejected" /\ UNCHANGED analysis_results
       ELSE \/ /\ pc' = "at scan"
               /\ analysis_results' =
                      [url               |-> app.url,
                       timestamp         |-> isoformat(now),
                       automated_results |-> None,
                       manual_results    |-> None,
                       wcag_levels       |-> app.wcag_levels,
                       wcag_version      |-> "2.1"]
            \/ /\ app.feature_flag
               /\ pc' = "failed"
               /\ UNCHANGED analysis_results
    /\ UNCHANGED <<report, ret, wcag_levels, outcomes, now, previous, generator,
                   app, driver>>

\* lines 135-139: checker.run_axe_core_analysis(url, ...) is called, or the
\* block is skipped
StartScan ==
    /\ pc = "at scan"
    /\ IF app.include_automated
       THEN pc' = "scanning" /\ app' = [app EXCEPT !.scan = "started"]
       ELSE pc' = "at manual" /\ UNCHANGED app
    /\ UNCHANGED <<analysis_results, report, ret, wcag_levels, outcomes, now,
                   previous, generator, driver>>

\* lines 139-143: the scan returns a record, which is stored, or raises
EndScan ==
    /\ pc = "scanning"
    /\ \/ \E automated_results \in ScanRecords :
              /\ analysis_results' =
                     [analysis_results EXCEPT !.automated_results = automated_results]
              /\ app' = [app EXCEPT !.scan = "returned"]
              /\ pc' = "at manual"
       \/ /\ app' = [app EXCEPT !.scan = "raised"]
          /\ pc' = "failed"
          /\ UNCHANGED analysis_results
    /\ UNCHANGED <<report, ret, wcag_levels, outcomes, now, previous, generator, driver>>

\* lines 146-154: with the switch on, the box ticked and an evaluator made,
\* the page content is fetched and the evaluator called; otherwise
\* manual_results is set to None
StartManual ==
    /\ pc = "at manual"
    /\ IF app.include_manual /\ app.feature_flag
       THEN /\ pc' = "assessing"
            /\ app' = [app EXCEPT !.manual = "started"]
            /\ UNCHANGED analysis_results
       ELSE /\ pc' = "ready"
            /\ analysis_results' = [analysis_results EXCEPT !.manual_results = None]
            /\ UNCHANGED app
    /\ UNCHANGED <<report, ret, wcag_levels, outcomes, now, previous, generator, driver>>

\* lines 149-150: get_page_content raises (accessibility_checker.py line
\* 190), or it returns and evaluate_manual_criteria, which takes two
\* arguments (ai_evaluator.py line 27), is called with three: TypeError
EndManual ==
    /\ pc = "assessing"
    /\ app' = [app EXCEPT !.manual = "raised"]
    /\ pc' = "failed"
    /\ UNCHANGED <<analysis_results, report, ret, wcag_levels, outcomes, now,
                   previous, generator, driver>>

\* The analysis differs from the one scored before in one finding: a
\* verdict that was not 'pass' is 'pass'; the score of before is kept.
ChangeVerdictToPass ==
    /\ pc = "scored"
    /\ "manual_results" \in DOMAIN analysis_results
    /\ \E i \in 1..Len(analysis_results.manual_results.entries) :
           /\ analysis_results.manual_results.entries[i].v.status # "pass"
           /\ analysis_results' =
                  [analysis_results EXCEPT
                      !.manual_results.entries[i].v.status = "pass"]
    /\ previous' = ret
    /\ pc' = "ready"
    /\ UNCHANGED <<report, ret, wcag_levels, outcomes, now, generator, app, driver>>

\* one violation less
RemoveViolation ==
    /\ pc = "scored"
    /\ "automated_results" \in DOMAIN analysis_results
    /\ \E j \in 1..Len(analysis_results.automated_results.violations) :
           analysis_results' =
               [analysis_results EXCEPT !.automated_results.violations =
                   SubSeq(@, 1, j - 1) \o SubSeq(@, j + 1, Len(@))]
    /\ previous' = ret
    /\ pc' = "ready"
    /\ UNCHANGED <<report, ret, wcag_levels, outcomes, now, generator, app, driver>>

\* one pass more
AddPass ==
    /\ pc = "scored"
    /\ "automated_results" \in DOMAIN analysis_results
    /\ Len(analysis_results.automated_results.passes) < MaxMonotoneFindings
    /\ analysis_results' =
           [analysis_results EXCEPT !.automated_results.passes =
               Append(@, Finding((Len(@) % Len(RuleIds)) + 1))]
    /\ previous' = ret
    /\ pc' = "ready"
    /\ UNCHANGED <<report, ret, wcag_levels, outcomes, now, generator, app, driver>>

\* accessibility_checker.py lines 13-17
WCAG_LEVEL_TAGS == [A |-> "wcag2a", AA |-> "wcag2aa", AAA |-> "wcag2aaa"]

\* lines 81-84: the tags axe is told to run
TagsOf(levels) ==
    IF IsNone(levels) \/ levels.list = << >> THEN <<"wcag2a", "wcag2aa">>
    ELSE LET known == SelectSeq(levels.list, LAMBDA l : l \in DOMAIN WCAG_LEVEL_TAGS)
         IN  [i \in 1..Len(known) |-> WCAG_LEVEL_TAGS[known[i]]]

\* the try block is left with an exception: lines 108-109, then finally
FailInTry(message) ==
    /\ ret' = [outcome |-> Reraised(Raise(message))]
    /\ pc' = "finally"

\* lines 69-70 and 28-44: _setup_driver makes the WebDriver and stores it,
\* or catches the failure and returns False, and the call raises before
\* the try block
SetupDriver ==
    /\ pc = "setup"
    /\ \/ /\ driver' = [self_driver |-> [session |-> Len(driver.quits) + 1],
                         quits       |-> Append(driver.quits, 0)]
          /\ pc' = "get"
          /\ ret' = EmptyDict
       \/ /\ pc' = "ended"
          /\ ret' = [outcome |-> Raise("Failed to setup WebDriver")]
          /\ UNCHANGED driver
    /\ UNCHANGED <<analysis_results, report, wcag_levels, outcomes, now, previous,
                   generator, app>>

\* lines 73-77: the page is loaded and its body waited for
LoadPage ==
    /\ pc = "get"
    /\ \/ pc' = "inject" /\ UNCHANGED ret
       \/ FailInTry("TimeoutException")
    /\ UNCHANGED <<analysis_results, report, wcag_levels, outcomes, now, previous,
                   generator, app, driver>>

\* lines 79 and 46-57: axe.min.js is read and run in the page
InjectAxeCore ==
    /\ pc = "inject"
    /\ \/ pc' = "run" /\ UNCHANGED ret
       \/ FailInTry("JavascriptException")
    /\ UNCHANGED <<analysis_results, report, wcag_levels, outcomes, now, previous,
                   generator, app, driver>>

\* lines 81-103: axe.run is started with the tags of the levels; the
\* script hands back a value, or the call raises (script timeout); None
\* is turned into an exception
RunAxe ==
    /\ pc = "run"
    /\ \/ \E axe_results \in AxeResults :
              IF IsNone(axe_results)
              THEN FailInTry("axe.run did not return any results (None)")
              ELSE /\ ret' = [tags |-> TagsOf(wcag_levels), axe_results |-> axe_results]
                   /\ pc' = "process"
       \/ FailInTry("TimeoutException")
    /\ UNCHANGED <<analysis_results, report, wcag_levels, outcomes, now, previous,
                   generator, app, driver>>

\* line 105: return self._process_axe_results(axe_results)
ProcessAxeResults ==
    /\ pc = "process"
    /\ ret' = [outcome |-> Reraised(process_axe_results(ret.axe_results))]
    /\ pc' = "finally"
    /\ UNCHANGED <<analysis_results, report, wcag_levels, outcomes, now, previous,
                   generator, app, driver>>

\* lines 110-112: the driver is quit; quit() may itself raise, and then
\* that exception leaves the call
Finally ==
    /\ pc = "finally"
    /\ driver' = DriverAfterFinally(driver, ret.outcome)
    /\ \/ UNCHANGED ret
       \/ /\ ~IsNone(driver.self_driver)
          /\ ret' = [outcome |-> Raise("WebDriverException")]
    /\ pc' = "ended"
    /\ UNCHANGED <<analysis_results, report, wcag_levels, outcomes, now, previous,
                   generator, app>>

\* the same checker is asked for another analysis
CallAgain ==
    /\ pc = "ended"
    /\ Len(driver.quits) < MaxScans
    /\ pc' = "setup"
    /\ ret' = EmptyDict
    /\ UNCHANGED <<analysis_results, report, wcag_levels, outcomes, now, previous,
                   generator, app, driver>>

\* time passes
Tick ==
    /\ now < MaxClock
    /\ now' = now + 1
    /\ UNCHANGED <<analysis_results, pc, report, ret, wcag_levels, outcomes,
                   previous, generator, app, driver>>

\* self._calculate_compliance_score(results), called on its own
CalculateComplianceScore ==
    /\ pc = "ready"
    /\ pc' = "scored"
    /\ ret' = [compliance_score |-> calculate_compliance_score(analysis_results)]
    /\ UNCHANGED <<analysis_results, report, wcag_levels, outcomes, now, previous, generator, app, driver>>

\* self._determine_overall_status(results), called on its own
DetermineOverallStatus ==
    /\ pc = "scored"
    /\ pc' = "done"
    /\ ret' = ret @@ [overall_status |-> determine_overall_status(analysis_results)]
    /\ UNCHANGED <<analysis_results, report, wcag_levels, outcomes, now, previous, generator, app, driver>>

Next == GenerateReport

Spec == Init /\ [][Next]_vars

NextScore == CalculateComplianceScore \/ DetermineOverallStatus \/ GenerateReport

SpecScore == InitScore /\ [][NextScore]_vars

NextManual == GenerateReport

SpecManual == InitManual /\ [][NextManual]_vars

NextFindings == GenerateReport

SpecFindings == InitFindings /\ [][NextFindings]_vars

NextEval == EvaluateManualCriteria \/ ParseAiResponse \/ GenerateReport

SpecEval == InitEval /\ [][NextEval]_vars

NextExport == GenerateReport \/ ExportReport

SpecExport == InitExport /\ [][NextExport]_vars

NextApp ==
    Analyze \/ StartScan \/ EndScan \/ StartManual \/ EndManual \/ GenerateReport \/ Tick

SpecApp == InitApp /\ [][NextApp]_vars

NextMonotone ==
    CalculateComplianceScore \/ ChangeVerdictToPass \/ RemoveViolation \/ AddPass

SpecMonotone == InitMonotone /\ [][NextMonotone]_vars

NextScan ==
    SetupDriver \/ LoadPage \/ InjectAxeCore \/ RunAxe \/ ProcessAxeResults
        \/ Finally \/ CallAgain

SpecScan == InitScan /\ [][NextScan]_vars

NextRepeat == GenerateReport \/ GenerateReportAgain \/ Tick

SpecRepeat == InitRepeat /\ [][NextRepeat]_vars

(***************************************************************************)
(* Vocabulary of the properties: the input as counts, and exact rounding.  *)
(***************************************************************************)
InAutomated == Get(analysis_results, "automated_results", EmptyDict)

InManual == Get(analysis_results, "manual_results", EmptyDict)

InViolations == Get(InAutomated, "violations", << >>)

InPasses == Get(InAutomated, "passes", << >>)

InEntries == Entries(InManual)

\* the verdicts whose status is one of S, by position in the mapping
InEntriesWithStatus(S) == {i \in 1..Len(InEntries) : InEntries[i].v.status \in S}

NumPassVerdicts == Cardinality(InEntriesWithStatus({"pass"}))

\* num / den rounded to the nearest integer, a tie going to the even one
RoundHalfEven(num, den) ==
    LET q == num \div den
        r == num % den
    IN  IF 2 * r < den THEN q
        ELSE IF 2 * r > den THEN q + 1
        ELSE IF q % 2 = 0 THEN q ELSE q + 1

\* what rounding num / den to the nearest integer may give: on a tie
\* round-half-up gives q + 1 and round-half-even the even one of q, q + 1
NearestIntegers(num, den) ==
    LET q == num \div den
        r == num % den
    IN  IF 2 * r < den THEN {q}
        ELSE IF 2 * r > den THEN {q + 1}
        ELSE {q + 1, RoundHalfEven(num, den)}

HasManual == Len(InEntries) > 0

HasAutomated == ~IsNone(InAutomated) /\ DOMAIN InAutomated # {}

Scored == "compliance_score" \in DOMAIN ret

(***************************************************************************)
(* C1: whatever the input (any number of verdicts with any statuses, any   *)
(* numbers of violations and passes, either or both sections absent),      *)
(* _calculate_compliance_score returns an integer between 0 and 100.       *)
(***************************************************************************)
C1_ScoreWithinBounds ==
    /\ Scored => ret.compliance_score \in 0..100
    /\ pc = "returned" => report.compliance_score \in 0..100

\* a blended score strictly inside the range has been returned
C1_Witness ==
    /\ Scored /\ HasManual /\ HasAutomated
    /\ ret.compliance_score \in 1..99

(***************************************************************************)
(* C2: generate_report treats a section stored as None like an absent      *)
(* one: it raises nothing and returns a report whose section for it has    *)
(* available = FALSE.                                                      *)
(***************************************************************************)
C2_NoneSectionIsUnavailable ==
    (pc \in {"returned", "raised"} /\ (IsNone(InAutomated) \/ IsNone(InManual))) =>
        /\ pc = "returned"
        /\ IsNone(InAutomated) => report.automated_results.available = FALSE
        /\ IsNone(InManual) => report.manual_assessment.available = FALSE

(***************************************************************************)
(* C3: with both a non-empty manual mapping and a non-empty automated      *)
(* record, the score is round(0.7 * manual_score + 0.3 * automated_score), *)
(* manual_score = 100 * pass / verdicts, automated_score = 100 * passes /  *)
(* (passes + violations), or 100 when passes + violations = 0.  The claim  *)
(* does not fix how round breaks a tie, so either neighbour is accepted.   *)
(***************************************************************************)
C3_BlendedScore ==
    (Scored /\ HasManual /\ HasAutomated) =>
        LET t  == Len(InEntries)
            p  == NumPassVerdicts
            np == Len(InPasses)
            ta == Len(InPasses) + Len(InViolations)
        IN  ret.compliance_score \in
                IF ta = 0 THEN NearestIntegers(70 * p + 30 * t, t)
                ELSE NearestIntegers(70 * p * ta + 30 * np * t, t * ta)

(***************************************************************************)
(* C4: with manual results only, the score is 100 * pass / verdicts        *)
(* rounded to the nearest integer, ties to even; fail, warning and error   *)
(* verdicts count in the denominator only; all 'pass' gives 100 and the    *)
(* status 'Excellent'.                                                     *)
(***************************************************************************)
C4_ManualOnlyScore ==
    (HasManual /\ ~HasAutomated) =>
        /\ Scored =>
              ret.compliance_score = RoundHalfEven(100 * NumPassVerdicts, Len(InEntries))
        /\ (pc = "done" /\ NumPassVerdicts = Len(InEntries)) =>
              ret.compliance_score = 100 /\ ret.overall_status = "Excellent"

(***************************************************************************)
(* C5: with automated results only, the score is                           *)
(* round(100 * passes / (passes + violations)), 100 whenever there is no   *)
(* violation; incomplete and inapplicable findings do not change it.       *)
(***************************************************************************)
C5_AutomatedOnlyScore ==
    (Scored /\ HasAutomated /\ ~HasManual) =>
        LET np == Len(InPasses)
            nv == Len(InViolations)
        IN  ret.compliance_score =
                IF nv = 0 THEN 100 ELSE RoundHalfEven(100 * np, np + nv)

(***************************************************************************)
(* C6: generate_report called with neither automated_results nor           *)
(* manual_results supplied returns a report with compliance_score 0,       *)
(* overall_status 'Poor' and both sections unavailable.                    *)
(***************************************************************************)
BothAbsent == DOMAIN analysis_results \cap {"automated_results", "manual_results"} = {}

C6_BothAbsent ==
    (BothAbsent /\ pc # "ready") =>
        /\ pc = "returned"
        /\ report.compliance_score = 0
        /\ report.summary.overall_status = "Poor"
        /\ report.automated_results.available = FALSE
        /\ report.manual_assessment.available = FALSE

C6_Witness == BothAbsent /\ pc = "returned"

(***************************************************************************)
(* C7: in every report the overall status is decided by the compliance     *)
(* score alone: Excellent iff score >= 90, Good iff 75 <= score < 90,      *)
(* Needs Improvement iff 50 <= score < 75, Poor iff score < 50.            *)
(***************************************************************************)
C7_StatusFromScore ==
    pc = "returned" =>
        LET score  == report.compliance_score
            status == report.summary.overall_status
        IN  /\ status = "Excellent" <=> score >= 90
            /\ status = "Good" <=> (75 <= score /\ score < 90)
            /\ status = "Needs Improvement" <=> (50 <= score /\ score < 75)
            /\ status = "Poor" <=> score < 50

\* a report whose score sits on the lower edge of 'Good'
C7_Witness ==
    /\ pc = "returned"
    /\ report.compliance_score = 75
    /\ report.summary.overall_status = "Good"

(***************************************************************************)
(* C8: the recommendation list holds exactly one 'automated' entry per     *)
(* violation and exactly one 'manual' entry per verdict whose status is    *)
(* fail or warning, and nothing else; pass and error verdicts give none.   *)
(***************************************************************************)
C8_OneRecommendationPerFinding ==
    pc = "returned" =>
        LET recs    == report.recommendations
            autoIdx == {k \in 1..Len(recs) : recs[k].type = "automated"}
            manIdx  == {k \in 1..Len(recs) : recs[k].type = "manual"}
            failing == InEntriesWithStatus({"fail", "warning"})
        IN  /\ Len(recs) = Len(InViolations) + Cardinality(failing)
            /\ autoIdx \cup manIdx = 1..Len(recs)
            /\ \A i \in 1..Len(InViolations) :
                   Cardinality({k \in autoIdx :
                       recs[k].title = InViolations[i].description}) = 1
            /\ \A i \in failing :
                   Cardinality({k \in manIdx : recs[k].title[1] = InEntries[i].id}) = 1
            /\ \A i \in InEntriesWithStatus({"pass", "error"}) :
                   \A k \in manIdx : recs[k].title[1] # InEntries[i].id

\* a violation, a warning and a verdict that gives no entry, in one report
C8_Witness ==
    /\ pc = "returned"
    /\ Len(InViolations) = 1
    /\ InEntriesWithStatus({"warning"}) # {}
    /\ InEntriesWithStatus({"pass", "error"}) # {}
    /\ Len(report.recommendations) = 2

(***************************************************************************)
(* C9: in the returned list, for positions i < j, rank(priority_i) <=      *)
(* rank(priority_j), with critical 0, high 1, medium 2, low 3 and every    *)
(* other priority 2; so a critical violation precedes a low manual fail.   *)
(***************************************************************************)
Rank(priority) ==
    IF priority = "critical" THEN 0
    ELSE IF priority = "high" THEN 1
    ELSE IF priority = "low" THEN 3
    ELSE 2

C9_SortedByPriority ==
    pc = "returned" =>
        LET recs == report.recommendations
        IN  \A i, j \in 1..Len(recs) :
                i < j => Rank(recs[i].priority) <= Rank(recs[j].priority)

\* the sort moved manual entries, one of unknown priority, ahead of an
\* automated entry of priority low
C9_Witness ==
    /\ pc = "returned"
    /\ Len(report.recommendations) = 3
    /\ report.recommendations[1].type = "manual"
    /\ report.recommendations[1].priority = "critical"
    /\ report.recommendations[2].priority = "urgent"
    /\ report.recommendations[3].type = "automated"
    /\ report.recommendations[3].priority = "low"

(***************************************************************************)
(* C10: the sort is stable: among entries of one rank every automated      *)
(* entry precedes every manual entry, automated entries keep the order of  *)
(* the violations, manual entries the order of the manual mapping.         *)
(***************************************************************************)
ViolationIndex(title) ==
    CHOOSE i \in 1..Len(InViolations) : InViolations[i].description = title

EntryIndex(criteria_id) ==
    CHOOSE i \in 1..Len(InEntries) : InEntries[i].id = criteria_id

C10_StableSort ==
    pc = "returned" =>
        LET recs == report.recommendations
        IN  \A i, j \in 1..Len(recs) :
                (i < j /\ Rank(recs[i].priority) = Rank(recs[j].priority)) =>
                    \/ recs[i].type = "automated" /\ recs[j].type = "manual"
                    \/ /\ recs[i].type = "automated" /\ recs[j].type = "automated"
                       /\ ViolationIndex(recs[i].title) < ViolationIndex(recs[j].title)
                    \/ /\ recs[i].type = "manual" /\ recs[j].type = "manual"
                       /\ EntryIndex(recs[i].title[1]) < EntryIndex(recs[j].title[1])

\* a manual entry sorted ahead, and behind it an automated and a manual
\* entry of one rank, the automated one first
C10_Witness ==
    /\ pc = "returned"
    /\ Len(report.recommendations) = 3
    /\ report.recommendations[1].type = "manual"
    /\ report.recommendations[1].priority = "critical"
    /\ report.recommendations[2].type = "automated"
    /\ report.recommendations[3].type = "manual"
    /\ Rank(report.recommendations[2].priority) = Rank(report.recommendations[3].priority)

(***************************************************************************)
(* Vocabulary of the evaluator properties.                                 *)
(***************************************************************************)
\* evaluate_manual_criteria has returned and its mapping is in the results
Evaluated == pc \in {"ready", "returned"} /\ outcomes # << >>

\* the catalog positions the call was to evaluate
Requested ==
    {i \in 1..Len(WCAG_CRITERIA) :
        /\ WCAG_CRITERIA[i].level \in wcag_levels
        /\ WCAG_CRITERIA[i].requires_manual_assessment}

\* the text is a JSON object
IsObjectResponse(o) ==
    /\ ~Raises(o)
    /\ ~IsNone(o.text)
    /\ "json" \in DOMAIN o.text
    /\ IsDict(o.text.json)

\* the provider call raised, or the response carries a confidence that is
\* no number and no numeric text
Unprocessable(o) ==
    \/ Raises(o)
    \/ /\ IsObjectResponse(o)
       /\ "confidence" \in DOMAIN o.text.json
       /\ LET c == o.text.json.confidence
          IN  \/ IsNone(c)
              \/ IsList(c)
              \/ IsStr(c) /\ c.s \notin {"0.8", "2"}

\* the verdict the returned mapping holds for a criterion id (None if none)
VerdictFor(m, id) ==
    LET at == {k \in 1..Len(Entries(m)) : Entries(m)[k].id = id}
    IN  IF at = {} THEN None ELSE Entries(m)[CHOOSE k \in at : TRUE].v

(***************************************************************************)
(* C11: evaluate_manual_criteria returns a mapping whatever the provider   *)
(* does; a requested criterion whose provider call raised or whose         *)
(* response has a confidence that is not convertible to a number appears   *)
(* with status 'error' and its catalog level and title; and every other    *)
(* criterion's verdict is the one the same run gives when that criterion   *)
(* gets a well-formed response instead.                                    *)
(***************************************************************************)
C11_FailureIsContained ==
    Evaluated =>
        /\ "entries" \in DOMAIN InManual
        /\ \A i \in Requested :
               Unprocessable(outcomes[i]) =>
                   LET v == VerdictFor(InManual, WCAG_CRITERIA[i].id)
                       without == evaluate_manual_criteria(
                                      [outcomes EXCEPT ![i] = GoodOutcome], wcag_levels)
                   IN  /\ ~IsNone(v)
                       /\ v.status = "error"
                       /\ v.level = WCAG_CRITERIA[i].level
                       /\ v.title = WCAG_CRITERIA[i].title
                       /\ \A j \in Requested \ {i} :
                              VerdictFor(InManual, WCAG_CRITERIA[j].id) =
                                  VerdictFor(without, WCAG_CRITERIA[j].id)

\* the provider raised for the first criterion, sent a confidence that is
\* no number for the second, and the other verdicts are 'pass'
C11_Witness ==
    /\ Evaluated
    /\ wcag_levels = {"A", "AA"}
    /\ Raises(outcomes[1])
    /\ ~Raises(outcomes[2]) /\ Unprocessable(outcomes[2])
    /\ VerdictFor(InManual, "1.1.1").status = "error"
    /\ VerdictFor(InManual, "1.2.1").status = "error"
    /\ VerdictFor(InManual, "2.4.6").status = "pass"

(***************************************************************************)
(* C12: for each level L of A, AA, AAA the wcag_compliance entry has       *)
(* total = the number of manual verdicts of level L, pass = the number of  *)
(* those with status 'pass', fail = the number of those with any other     *)
(* status, pass + fail = total, and compliance_rate = pass / total * 100   *)
(* rounded to one decimal (held in tenths), 0 when total = 0; the table    *)
(* depends on the manual verdicts only.                                    *)
(***************************************************************************)
C12_LevelTable ==
    pc = "returned" =>
        \A L \in {"A", "AA", "AAA"} :
            LET at     == {i \in 1..Len(InEntries) : InEntries[i].v.level = L}
                passed == {i \in at : InEntries[i].v.status = "pass"}
                others == {i \in at : InEntries[i].v.status \in {"fail", "warning", "error"}}
                entry  == report.wcag_compliance[L]
            IN  /\ entry.total = Cardinality(at)
                /\ entry.pass = Cardinality(passed)
                /\ entry.fail = Cardinality(others)
                /\ entry.pass + entry.fail = entry.total
                /\ entry.compliance_rate \in
                       IF Cardinality(at) = 0 THEN {0}
                       ELSE NearestIntegers(1000 * Cardinality(passed), Cardinality(at))

\* two 'pass' and one other verdict at AA, next to a scan with a violation:
\* total 3, pass 2, fail 1, rate 66.7
C12_Witness ==
    /\ pc = "returned"
    /\ Len(InViolations) = 1
    /\ InEntriesWithStatus({"pass"}) # {}
    /\ report.wcag_compliance["AA"] =
           [total |-> 3, pass |-> 2, fail |-> 1, compliance_rate |-> 667]
    /\ report.wcag_compliance["A"].compliance_rate = 0

(***************************************************************************)
(* Vocabulary of the parser properties: the response handed to             *)
(* _parse_ai_response when it is called on its own.                        *)
(***************************************************************************)
Parsed == pc = "parsed"

ParsedResponse == outcomes[ret.criterion].text

\* the response is a JSON object
ParsedObject == Parsed /\ "json" \in DOMAIN ParsedResponse /\ IsDict(ParsedResponse.json)

\* the value a field of the response has, its default when it has none
FieldOrDefault(field, default) == Get(ParsedResponse.json, field, default)

\* the confidence the provider sent for catalog entry i (None if it sent none)
SentConfidence(i) ==
    IF IsObjectResponse(outcomes[i])
    THEN Get(outcomes[i].text.json, "confidence", None)
    ELSE None

\* float() accepts the value: a number, or a text that reads as one
Convertible(c) == IsNum(c) \/ IsNaN(c) \/ (IsStr(c) /\ c.s \in {"0.8", "2"})

(***************************************************************************)
(* C13: _parse_ai_response does not raise because of the status or the     *)
(* priority of a parsed response: for any status value (a string in any    *)
(* letter case, null, a number) the verdict's status is the lower-cased    *)
(* value if that is pass, fail or warning, else 'warning'; the priority is *)
(* the lower-cased value if that is low, medium, high or critical, else    *)
(* 'medium'.                                                               *)
(***************************************************************************)
C13_StatusAndPriorityCoerced ==
    (ParsedObject /\ Convertible(FieldOrDefault("confidence", Num(50)))) =>
        LET status   == FieldOrDefault("status", Str("warning"))
            priority == FieldOrDefault("priority", Str("medium"))
        IN  /\ ~Raises(ret.parsed)
            /\ ret.parsed.return.status =
                   IF IsStr(status) /\ Lower(status.s) \in {"pass", "fail", "warning"}
                   THEN Lower(status.s) ELSE "warning"
            /\ ret.parsed.return.priority =
                   IF IsStr(priority)
                      /\ Lower(priority.s) \in {"low", "medium", "high", "critical"}
                   THEN Lower(priority.s) ELSE "medium"

(***************************************************************************)
(* C14: a verdict returned by _parse_ai_response for a response whose      *)
(* confidence is the number c has confidence 0 if c < 0, 1 if c > 1, and c *)
(* otherwise (numbers are held in hundredths); and the confidence of every *)
(* manual recommendation of the report lies between 0 and 1.               *)
(***************************************************************************)
C14_ConfidenceClamped ==
    /\ (ParsedObject /\ ~Raises(ret.parsed)
           /\ IsNum(FieldOrDefault("confidence", Num(50)))) =>
           LET c == FieldOrDefault("confidence", Num(50)).num
           IN  ret.parsed.return.confidence =
                   Num(IF c < 0 THEN 0 ELSE IF c > 100 THEN 100 ELSE c)
    /\ (pc = "returned" /\ outcomes # << >>) =>
           \A k \in 1..Len(report.recommendations) :
               report.recommendations[k].type = "manual" =>
                   /\ IsNum(report.recommendations[k].confidence)
                   /\ report.recommendations[k].confidence.num \in 0..100

\* confidences 1.5 and -0.5 sent for two failing criteria reach the
\* recommendations as 1 and 0
C14_Witness ==
    /\ pc = "returned"
    /\ outcomes # << >>
    /\ SentConfidence(1) = Num(150)
    /\ SentConfidence(2) = Num(-50)
    /\ \E k \in 1..Len(report.recommendations) :
           /\ report.recommendations[k].type = "manual"
           /\ report.recommendations[k].title[1] = "1.1.1"
           /\ report.recommendations[k].confidence = Num(100)
    /\ \E k \in 1..Len(report.recommendations) :
           /\ report.recommendations[k].type = "manual"
           /\ report.recommendations[k].title[1] = "1.2.1"
           /\ report.recommendations[k].confidence = Num(0)

(***************************************************************************)
(* C15: every verdict of the mapping returned by evaluate_manual_criteria, *)
(* the verdict of a criterion whose evaluation failed included, carries    *)
(* the six fields status, confidence, assessment, issues, recommendations  *)
(* and priority.                                                           *)
(***************************************************************************)
C15_SixFieldsInEveryVerdict ==
    Evaluated =>
        \A k \in 1..Len(InEntries) :
            {"status", "confidence", "assessment", "issues", "recommendations",
             "priority"} \subseteq DOMAIN InEntries[k].v

(***************************************************************************)
(* Vocabulary of the classifier properties.                                *)
(***************************************************************************)
RECURSIVE SumOver(_, _)
\* the sum of f over the keys in S
SumOver(f, S) ==
    IF S = {} THEN 0
    ELSE LET x == CHOOSE y \in S : TRUE
         IN  f[x] + SumOver(f, S \ {x})

\* the violations, by position, whose impact is the tier s
ViolationsOfTier(s) ==
    {i \in 1..Len(InViolations) :
        "impact" \in DOMAIN InViolations[i] /\ InViolations[i].impact = Str(s)}

\* the violations whose impact has no value: stored as None, as the
\* scanner emits it, or left out
ViolationsWithoutImpact ==
    {i \in 1..Len(InViolations) :
        "impact" \in DOMAIN InViolations[i] => IsNone(InViolations[i].impact)}

\* every violation has one of the four tiers or an impact without a value
ScannerImpacts ==
    \A i \in 1..Len(InViolations) :
        i \in ViolationsWithoutImpact
        \/ \E s \in {"critical", "serious", "moderate", "minor"} : i \in ViolationsOfTier(s)

(***************************************************************************)
(* C16: in the processed automated section impact_summary has exactly the  *)
(* keys critical, serious, moderate, minor, its counts sum to              *)
(* total_violations, and a violation whose impact has no value is counted  *)
(* under 'moderate'.                                                       *)
(***************************************************************************)
C16_ImpactSummary ==
    (pc = "returned" /\ report.automated_results.available /\ ScannerImpacts) =>
        LET summary == report.automated_results.impact_summary
            tiers   == {Str("critical"), Str("serious"), Str("moderate"), Str("minor")}
        IN  /\ DOMAIN summary = tiers
            /\ SumOver(summary, tiers) = report.automated_results.total_violations
            /\ summary[Str("moderate")] =
                   Cardinality(ViolationsOfTier("moderate") \cup ViolationsWithoutImpact)

(***************************************************************************)
(* C17: in the processed manual section, for a mapping whose verdicts have *)
(* the statuses pass, fail, warning, error, level_summary maps each of A,  *)
(* AA, AAA to exactly the keys pass, fail, warning, and the status_summary *)
(* counts of pass, fail, warning, error sum to total_criteria.             *)
(***************************************************************************)
C17_CrossTab ==
    (pc = "returned" /\ report.manual_assessment.available) =>
        LET section == report.manual_assessment
        IN  /\ DOMAIN section.level_summary = {"A", "AA", "AAA"}
            /\ \A L \in {"A", "AA", "AAA"} :
                   DOMAIN section.level_summary[L] = {"pass", "fail", "warning"}
            /\ SumOver(section.status_summary, {"pass", "fail", "warning", "error"})
                   = section.total_criteria

(***************************************************************************)
(* Vocabulary of the cross references.                                     *)
(***************************************************************************)
\* needle occurs in hay as a run of consecutive characters
IsSubstring(needle, hay) ==
    \E a \in 1..(Len(hay) - Len(needle) + 1) :
        SubSeq(hay, a, a + Len(needle) - 1) = needle

\* the manual verdicts, by position, whose criterion id without its periods
\* occurs in one of the tags of violation i
RelatedTo(i) ==
    LET tags == Get(InViolations[i], "tags", << >>)
    IN  {k \in 1..Len(InEntries) :
            \E t \in 1..Len(tags) :
                IsSubstring(SelectSeq(Chars(InEntries[k].id), LAMBDA c : c # "."),
                            Chars(tags[t]))}

\* list holds exactly the ids of the verdicts at positions K, in mapping order
ListsInOrder(list, K) ==
    /\ Len(list) = Cardinality(K)
    /\ \A n \in 1..Len(list) :
           \E k \in K : /\ list[n] = InEntries[k].id
                        /\ Cardinality({j \in K : j < k}) = n - 1

(***************************************************************************)
(* C18: cross_references has a key for a violation id exactly when some    *)
(* manual criterion id, with its periods removed, is a substring of one of *)
(* that violation's tags; its value lists exactly those criterion ids in   *)
(* manual-mapping order; every listed id is a key of the manual results;   *)
(* no key maps to an empty list.                                           *)
(***************************************************************************)
C18_CrossReferences ==
    pc = "returned" =>
        LET refs == report.detailed_findings.cross_references
        IN  /\ \A i \in 1..Len(InViolations) :
                   /\ InViolations[i].id \in DOMAIN refs <=> RelatedTo(i) # {}
                   /\ RelatedTo(i) # {} =>
                          ListsInOrder(refs[InViolations[i].id], RelatedTo(i))
            /\ \A id \in DOMAIN refs :
                   /\ \E i \in 1..Len(InViolations) : InViolations[i].id = id
                   /\ refs[id] # << >>
                   /\ \A n \in 1..Len(refs[id]) :
                          \E k \in 1..Len(InEntries) : InEntries[k].id = refs[id][n]

\* a violation tagged wcag1411 and wcag246 is related to 1.4.1 and 2.4.6, in
\* that order, and a violation without a related criterion has no key
C18_Witness ==
    /\ pc = "returned"
    /\ Len(InViolations) = 2
    /\ Len(InEntries) = 3
    /\ DOMAIN report.detailed_findings.cross_references = {InViolations[1].id}
    /\ report.detailed_findings.cross_references[InViolations[1].id] = <<"1.4.1", "2.4.6">>
    /\ Get(InViolations[1], "tags", << >>) = <<"wcag2a", "wcag1411", "wcag246">>
    /\ Get(InViolations[2], "tags", << >>) = <<"best-practice">>

(***************************************************************************)
(* C19: key_findings holds, in this order, the critical-violation count if *)
(* some violation has impact critical, the high-priority count if some     *)
(* manual verdict has priority high, the 'no critical issues' string iff   *)
(* neither of the two is there, and the image warning iff the verdict for  *)
(* criterion 1.1.1 has status 'fail'; it has between 1 and 5 strings.      *)
(***************************************************************************)
C19_KeyFindings ==
    pc = "returned" =>
        LET critical == Cardinality(ViolationsOfTier("critical"))
            high     == Cardinality({k \in 1..Len(InEntries) :
                            /\ "priority" \in DOMAIN InEntries[k].v
                            /\ InEntries[k].v.priority = "high"})
            image    == \E k \in 1..Len(InEntries) :
                            /\ InEntries[k].id = "1.1.1"
                            /\ InEntries[k].v.status = "fail"
            expected ==
                (IF critical > 0
                 THEN <<ToString(critical) \o " critical accessibility violations found">>
                 ELSE << >>)
                \o (IF high > 0
                    THEN <<ToString(high) \o " high-priority WCAG compliance issues">>
                    ELSE << >>)
                \o (IF critical = 0 /\ high = 0
                    THEN <<"No critical accessibility issues detected">>
                    ELSE << >>)
                \o (IF image THEN <<"Image accessibility needs attention">> ELSE << >>)
        IN  /\ report.summary.key_findings = expected
            /\ Len(report.summary.key_findings) \in 1..5

\* the rules (1), (2) and (4) fired, in that order
C19_Witness ==
    /\ pc = "returned"
    /\ report.summary.key_findings =
           << "2 critical accessibility violations found",
              "1 high-priority WCAG compliance issues",
              "Image accessibility needs attention" >>

(***************************************************************************)
(* C20: the priority of the recommendation for an automated violation is   *)
(* decided by its impact alone: critical -> critical, serious -> high,     *)
(* moderate -> medium, minor -> low, any other impact or none -> medium;   *)
(* so it is one of critical, high, medium, low.                            *)
(***************************************************************************)
C20_PriorityFromImpact ==
    pc = "returned" =>
        /\ \A i \in 1..Len(InViolations) :
               \E k \in 1..Len(report.recommendations) :
                   /\ report.recommendations[k].type = "automated"
                   /\ report.recommendations[k].title = InViolations[i].description
                   /\ report.recommendations[k].priority =
                          IF i \in ViolationsOfTier("critical") THEN "critical"
                          ELSE IF i \in ViolationsOfTier("serious") THEN "high"
                          ELSE IF i \in ViolationsOfTier("minor") THEN "low"
                          ELSE "medium"
        /\ \A k \in 1..Len(report.recommendations) :
               report.recommendations[k].type = "automated" =>
                   report.recommendations[k].priority \in {"critical", "high", "medium", "low"}

\* a serious violation and one of an impact outside the table, reported as
\* high and medium
C20_Witness ==
    /\ pc = "returned"
    /\ Len(InViolations) = 2
    /\ 1 \in ViolationsOfTier("serious")
    /\ 2 \in ViolationsOfTier("trivial")
    /\ Len(InEntries) = 0
    /\ report.recommendations[1].priority = "high"
    /\ report.recommendations[2].priority = "medium"

(***************************************************************************)
(* C21: two calls of generate_report on the same input return the same     *)
(* report: the report depends on the input only, not on the clock, and     *)
(* meta.timestamp is the timestamp the caller supplied.                    *)
(***************************************************************************)
CalledTwice == pc = "repeated"

C21_SameInputSameReport ==
    CalledTwice =>
        /\ report = previous
        /\ ("timestamp" \in DOMAIN analysis_results /\ "meta" \in DOMAIN report) =>
               report.meta.timestamp = analysis_results.timestamp

Exported == pc = "exported"

SupportedFormats == {"json", "html", "csv"}

C23_ExportByFormat ==
    Exported =>
        /\ ret.format_type \in SupportedFormats => ~Raises(ret.result)
        /\ ret.format_type \notin SupportedFormats =>
               /\ Raises(ret.result)
               /\ ret.result.raise = "Unsupported export format: " \o ret.format_type
        /\ report = generate_report(analysis_results)

(***************************************************************************)
(* C24: the fix suggestions of an automated recommendation are the canned  *)
(* set of the first of color-contrast, image-alt, heading, label that      *)
(* occurs in the violation id, and only that set; an id in which none      *)
(* occurs gets exactly one suggestion, the help text of the violation.     *)
(***************************************************************************)
Occurs(needle, id) == IsSubstring(Chars(needle), Chars(id))

RuleOrder == <<"color-contrast", "image-alt", "heading", "label">>

OccurringRules(id) == {k \in 1..Len(RuleOrder) : Occurs(RuleOrder[k], id)}

C24_FirstMatchWins ==
    pc = "returned" =>
        \A i \in 1..Len(InViolations) :
            LET violation == InViolations[i]
                rec       == report.recommendations[i]
                occurring == OccurringRules(violation.id)
            IN  /\ rec.type = "automated"
                /\ rec.title = violation.description
                /\ \A k \in occurring :
                       (\A j \in occurring : k <= j) =>
                           rec.fix_suggestions = SuggestionRules[k].suggestions
                /\ occurring = {} =>
                       /\ Len(rec.fix_suggestions) = 1
                       /\ "help" \in DOMAIN violation =>
                              rec.fix_suggestions[1] = violation.help

\* a report with a violation whose id holds two of the substrings, the
\* later one in rule order first, and a violation whose id holds none
C24_Witness ==
    /\ pc = "returned"
    /\ Len(InViolations) = 2
    /\ InViolations[1].id = "label-color-contrast"
    /\ OccurringRules(InViolations[1].id) = {1, 4}
    /\ OccurringRules(InViolations[2].id) = {}
    /\ "help" \in DOMAIN InViolations[2] /\ IsStr(InViolations[2].help)
    /\ report.recommendations[2].fix_suggestions = <<InViolations[2].help>>

(***************************************************************************)
(* C25: the mapping evaluate_manual_criteria returns has as keys exactly   *)
(* the catalog criteria whose level is requested and that need manual      *)
(* assessment, one verdict for each, and the verdict's level and title are *)
(* the catalog's, whatever level or title the provider sent.               *)
(***************************************************************************)
ManualInLevels ==
    {i \in 1..Len(WCAG_CRITERIA) :
        /\ WCAG_CRITERIA[i].level \in wcag_levels
        /\ WCAG_CRITERIA[i].requires_manual_assessment}

C25_KeysAndCatalogFields ==
    Evaluated =>
        /\ {InEntries[k].id : k \in 1..Len(InEntries)} =
               {WCAG_CRITERIA[i].id : i \in ManualInLevels}
        /\ Len(InEntries) = Cardinality(ManualInLevels)
        /\ \A k \in 1..Len(InEntries) : \A i \in ManualInLevels :
               InEntries[k].id = WCAG_CRITERIA[i].id =>
                   /\ InEntries[k].v.level = WCAG_CRITERIA[i].level
                   /\ InEntries[k].v.title = WCAG_CRITERIA[i].title

\* levels A and AA are requested, the catalog holds an AA criterion that
\* needs no manual assessment, and the provider sent a level and a title
\* of its own for the first criterion
C25_Witness ==
    /\ Evaluated
    /\ wcag_levels = {"A", "AA"}
    /\ outcomes[1] = LabelledOutcome
    /\ \E i \in 1..Len(WCAG_CRITERIA) :
           WCAG_CRITERIA[i].level = "AA" /\ i \notin ManualInLevels
    /\ InEntries[1].id = WCAG_CRITERIA[1].id
    /\ InEntries[1].v.status = "fail"
    /\ InEntries[1].v.level = "A"

(***************************************************************************)
(* C26: in a run of main(), generate_report is called only after the       *)
(* automated scan, when selected, and the manual assessment, when enabled, *)
(* have each returned; once either has raised, generate_report is not      *)
(* called in that run; and no scan starts unless the URL begins with       *)
(* http:// or https://.                                                    *)
(***************************************************************************)
ReportCalled == pc \in {"ready", "returned", "raised"}

InRun == DOMAIN app # {}

HasPrefix(url, prefix) ==
    /\ Len(Chars(url)) >= Len(Chars(prefix))
    /\ SubSeq(Chars(url), 1, Len(Chars(prefix))) = Chars(prefix)

C26_ReportAfterBothTerminated ==
    InRun =>
        /\ ReportCalled =>
               /\ app.include_automated => app.scan = "returned"
               /\ (app.include_manual /\ app.feature_flag) => app.manual = "returned"
        /\ (app.scan = "raised" \/ app.manual = "raised") => ~ReportCalled
        /\ app.scan # "not started" =>
               HasPrefix(app.url, "http://") \/ HasPrefix(app.url, "https://")

\* a run whose scan returned a record with a violation and in which
\* generate_report has then been called (main() stores None as
\* manual_results, so the call has raised)
C26_Witness ==
    /\ InRun
    /\ pc = "raised"
    /\ app.include_automated /\ app.scan = "returned"
    /\ Len(InViolations) = 1
    /\ IsNone(analysis_results.manual_results)
    /\ report = [error |-> "AttributeError"]

(***************************************************************************)
(* C27: whenever the key findings of a report hold 'No critical            *)
(* accessibility issues detected', summary.critical_issues is 0 and no     *)
(* recommendation has the priority 'critical'.                             *)
(***************************************************************************)
NoCriticalText == "No critical accessibility issues detected"

SaysNoCritical ==
    \E k \in 1..Len(report.summary.key_findings) :
        report.summary.key_findings[k] = NoCriticalText

C27_NoCriticalMeansNone ==
    (pc = "returned" /\ SaysNoCritical) =>
        /\ report.summary.critical_issues = 0
        /\ \A k \in 1..Len(report.recommendations) :
               report.recommendations[k].priority # "critical"

(***************************************************************************)
(* C28: in every report meta.testing_methods.automated is true exactly     *)
(* when automated_results.available is, and meta.testing_methods.manual_ai *)
(* exactly when manual_assessment.available is, also when a section was    *)
(* supplied as an empty record or an empty mapping.                        *)
(***************************************************************************)
C28_MethodsMatchAvailability ==
    pc = "returned" =>
        /\ report.meta.testing_methods.automated <=> report.automated_results.available
        /\ report.meta.testing_methods.manual_ai <=> report.manual_assessment.available

(***************************************************************************)
(* C29: with the same sections present, an analysis that differs from      *)
(* another in one finding only - one manual verdict 'pass' instead of a    *)
(* non-pass status, one automated violation less, or one automated pass    *)
(* more - never has the lower compliance score.                            *)
(***************************************************************************)
ScoredAgain == pc = "scored" /\ "compliance_score" \in DOMAIN previous

C29_ScoreIsMonotone ==
    ScoredAgain => ret.compliance_score >= previous.compliance_score

\* a blended score that rose with the change, and is not yet 100
C29_Witness ==
    /\ ScoredAgain
    /\ HasManual /\ HasAutomated
    /\ previous.compliance_score < ret.compliance_score
    /\ ret.compliance_score < 100
    /\ Len(InViolations) > 0

(***************************************************************************)
(* C30: once run_axe_core_analysis has started the WebDriver, the call     *)
(* ends, however it ends, only after that driver has been quit, and it is  *)
(* quit exactly once; and what the call returns is a record with exactly   *)
(* the partitions violations, passes, incomplete and inapplicable, never   *)
(* an axe error record or None.                                            *)
(***************************************************************************)
ScanEnded == pc = "ended" /\ "outcome" \in DOMAIN ret

FourPartitions == {"violations", "passes", "incomplete", "inapplicable"}

C30_DriverQuitOnce ==
    /\ \A session \in 1..Len(driver.quits) : driver.quits[session] <= 1
    /\ ScanEnded =>
           /\ \A session \in 1..Len(driver.quits) : driver.quits[session] = 1
           /\ ~Raises(ret.outcome) =>
                  /\ ~IsNone(ret.outcome.return)
                  /\ DOMAIN ret.outcome.return = FourPartitions

\* the second call on a checker has ended with an exception of the try
\* block, after a first call that returned a record
C30_Witness ==
    /\ ScanEnded
    /\ Len(driver.quits) = 2
    /\ driver.self_driver = [session |-> 2]
    /\ driver.quits = <<1, 1>>
    /\ Raises(ret.outcome)
    /\ ret.outcome.raise = "Error during axe-core analysis: axe-core error: Error: No elements found for include in page Context"

====
